---- MODULE Spec2Model ----
(***************************************************************************)
(* A model of mcp-adguard-home: the credential sanitizer, the HTTP client, *)
(* the registration gate with its handler wrapper, and the tool handlers   *)
(* that guard destructive operations.  Strings are TLA+ strings; a thrown  *)
(* value is a record, and an optional value is a sequence of length 0 or 1.*)
(***************************************************************************)
EXTENDS Integers, Sequences, FiniteSets, TLC

VARIABLES
    config,      \* the AppConfig every component reads
    sanPc,       \* sanitizer harness: "ready" | "done" | "again"
    message,     \* sanitizer harness: the message handed to sanitizeMessage
    sanitized,   \* sanitizer harness: what sanitizeMessage returned
    resanitized, \* sanitizer harness: sanitizeMessage applied to that result
    registered,  \* the McpServer's tools: name -> what registerTool handed over
    gateArg,     \* the descriptor of the last registerTool call, if any
    gateRet,     \* the value the last registerTool call returned, if any
    wrapCall,    \* the last call of a wrapped handler: name, outcome, result
    failures,    \* how many wrapped calls have ended with an error result
    gateLog,     \* what the last registerTool call handed to logger.debug
    client,      \* the AdGuardClient's fields: authHeader, baseUrl
    clientCall,  \* client harness: the last client method call and its outcome
    requestLog,  \* the HTTP requests handed to fetch, in order
    proc,        \* the process: position of main(), exit code, logger.error
                 \* lines, and the startup steps main() has begun, in order
    calls,       \* the tool calls the transport has dispatched, by call id
    env,         \* process.env: the variables loadConfig reads
    loaded,      \* what loadConfig() ended with, once it has run
    remote       \* the appliance: its DNS rewrite rules and static DHCP leases

sanVars == <<sanPc, message, sanitized, resanitized>>
gateVars == <<registered, gateArg, gateRet, wrapCall, failures, gateLog>>
clientVars == <<client, clientCall, requestLog>>
mainVars == <<proc, calls, env, loaded, remote>>
vars == <<config, sanPc, message, sanitized, resanitized,
          registered, gateArg, gateRet, wrapCall, failures, gateLog,
          client, clientCall, requestLog, proc, calls, env, loaded, remote>>

(***************************************************************************)
(* Bounds                                                                  *)
(***************************************************************************)
MaxParts == 3        \* a message is the concatenation of at most this many parts
MaxCalls == 1        \* tool calls dispatched in one run of the server
MaxRequests == 1     \* the client harness issues at most this many requests
MaxFailures == 1     \* failed wrapped calls counted up to this many

(***************************************************************************)
(* Optional values                                                         *)
(***************************************************************************)
None == <<>>
Some(x) == <<x>>

(***************************************************************************)
(* String helpers: String.prototype.includes / replaceAll                  *)
(***************************************************************************)
includes(s, t) ==
    \E i \in 1..(Len(s) - Len(t) + 1) : SubSeq(s, i, i + Len(t) - 1) = t

\* String.prototype.indexOf, 1-based; 0 when t does not occur in s
indexOf(s, t) ==
    IF includes(s, t)
    THEN CHOOSE i \in 1..(Len(s) - Len(t) + 1) :
            /\ SubSeq(s, i, i + Len(t) - 1) = t
            /\ \A j \in 1..(i - 1) : SubSeq(s, j, j + Len(t) - 1) # t
    ELSE 0

\* String.prototype.replaceAll with a string pattern: the occurrences are
\* found left to right and do not overlap; the text put in is not searched
RECURSIVE replaceAll(_, _, _)
replaceAll(s, t, r) ==
    IF Len(t) = 0 \/ indexOf(s, t) = 0 THEN s
    ELSE LET i == indexOf(s, t)
         IN  SubSeq(s, 1, i - 1) \o r \o replaceAll(SubSeq(s, i + Len(t), Len(s)), t, r)

(***************************************************************************)
(* Buffer.from(str).toString('base64') for printable ASCII                 *)
(***************************************************************************)
\* printable ASCII 32..95 and 97..126 (the backquote, 96, is not a TLA+ string character)
AsciiLow == " !\"#$%&'()*+,-./0123456789:;<=>?@ABCDEFGHIJKLMNOPQRSTUVWXYZ[\\]^_"
AsciiHigh == "abcdefghijklmnopqrstuvwxyz{|}~"

charCode(c) ==
    IF \E i \in 1..Len(AsciiLow) : SubSeq(AsciiLow, i, i) = c
    THEN 31 + (CHOOSE i \in 1..Len(AsciiLow) : SubSeq(AsciiLow, i, i) = c)
    ELSE 96 + (CHOOSE i \in 1..Len(AsciiHigh) : SubSeq(AsciiHigh, i, i) = c)

toBytes(s) == [i \in 1..Len(s) |-> charCode(SubSeq(s, i, i))]

B64Alphabet ==
    "ABCDEFGHIJKLMNOPQRSTUVWXYZabcdefghijklmnopqrstuvwxyz0123456789+/"

b64char(n) == SubSeq(B64Alphabet, n + 1, n + 1)

RECURSIVE base64Encode(_)
base64Encode(b) ==
    IF Len(b) = 0 THEN ""
    ELSE IF Len(b) = 1
    THEN b64char(b[1] \div 4) \o b64char((b[1] % 4) * 16) \o "=="
    ELSE IF Len(b) = 2
    THEN b64char(b[1] \div 4) \o b64char((b[1] % 4) * 16 + b[2] \div 16)
         \o b64char((b[2] % 16) * 4) \o "="
    ELSE b64char(b[1] \div 4) \o b64char((b[1] % 4) * 16 + b[2] \div 16)
         \o b64char((b[2] % 16) * 4 + b[3] \div 64) \o b64char(b[3] % 64)
         \o base64Encode(SubSeq(b, 4, Len(b)))

toBase64(s) == base64Encode(toBytes(s))

(***************************************************************************)
(* errors.ts                                                               *)
(***************************************************************************)
REDACTED == "[REDACTED]"

base64Auth(cfg) == toBase64(cfg.username \o ":" \o cfg.password)

sanitizeMessage(msg, cfg) ==
    LET s1 == IF cfg.password # "" THEN replaceAll(msg, cfg.password, REDACTED) ELSE msg
        s2 == IF cfg.username # "" THEN replaceAll(s1, cfg.username, REDACTED) ELSE s1
        b  == base64Auth(cfg)
    IN  IF b # "" THEN replaceAll(s2, b, REDACTED) ELSE s2

\* the three values the sanitizer is to remove
Credentials(cfg) == {cfg.username, cfg.password, base64Auth(cfg)}

containsCredential(s, cfg) == \E c \in Credentials(cfg) : includes(s, c)

(***************************************************************************)
(* Configurations                                                          *)
(***************************************************************************)
Usernames == {"admin", "u", "E"}
Passwords == {"s3cret", "]x"}

SanConfigs ==
    [url : {"http://adguard.local"}, username : Usernames, password : Passwords,
     accessTier : {"full"}, categories : {None}, debug : {FALSE},
     confirmDestructive : {FALSE}]

(***************************************************************************)
(* Sanitizer harness: one call of sanitizeMessage on a bounded message     *)
(***************************************************************************)
MessageParts(cfg) == Credentials(cfg) \cup {"x", " failed: "}

RECURSIVE Concat(_)
Concat(parts) == IF Len(parts) = 0 THEN "" ELSE Head(parts) \o Concat(Tail(parts))

Messages(cfg) ==
    {Concat(p) : p \in UNION {[1..n -> MessageParts(cfg)] : n \in 0..MaxParts}}

SanIdle == sanPc = "ready" /\ message = "" /\ sanitized = "" /\ resanitized = ""

GateIdle ==
    /\ registered = <<>>
    /\ gateArg = None
    /\ gateRet = None
    /\ wrapCall = None
    /\ failures = 0
    /\ gateLog = <<>>

NoClient == [authHeader |-> "", baseUrl |-> ""]

ClientIdle == client = NoClient /\ clientCall = None /\ requestLog = <<>>

CallIds == 1..MaxCalls

NoResult == [threw |-> FALSE, text |-> "", isError |-> FALSE]

IdleCall ==
    [pc |-> "idle", tool |-> "", args |-> <<>>, invoked |-> 0, step |-> 0,
     returned |-> 0, sent |-> <<>>, result |-> NoResult]

\* an appliance without rewrite rules and static leases
NoRemote == [rewrites |-> {}, leases |-> {}]

NoProcess == [pc |-> "off", exitCode |-> None, stderr |-> <<>>, steps |-> <<>>]

NoEnv ==
    [ADGUARD_URL |-> None, ADGUARD_USERNAME |-> None, ADGUARD_PASSWORD |-> None,
     ADGUARD_ACCESS_TIER |-> None, ADGUARD_CATEGORIES |-> None,
     ADGUARD_CONFIRM_DESTRUCTIVE |-> None, DEBUG |-> None]

MainIdle ==
    /\ proc = NoProcess
    /\ calls = [c \in CallIds |-> IdleCall]
    /\ env = NoEnv
    /\ loaded = None
    /\ remote = NoRemote

SanInit ==
    /\ config \in SanConfigs
    /\ GateIdle
    /\ ClientIdle
    /\ MainIdle
    /\ sanPc = "ready"
    /\ message = ""
    /\ sanitized = ""
    /\ resanitized = ""

Sanitize ==
    /\ sanPc = "ready"
    /\ \E m \in Messages(config) :
          /\ message' = m
          /\ sanitized' = sanitizeMessage(m, config)
    /\ sanPc' = "done"
    /\ UNCHANGED <<config, resanitized, gateVars, clientVars, mainVars>>

\* the sanitized message is sanitized again, as the handler wrapper does with
\* the message of an AdGuardError the client has already sanitized
Resanitize ==
    /\ sanPc = "done"
    /\ resanitized' = sanitizeMessage(sanitized, config)
    /\ sanPc' = "again"
    /\ UNCHANGED <<config, message, sanitized, gateVars, clientVars, mainVars>>

SanNext == Sanitize \/ Resanitize

SpecSanitize == SanInit /\ [][SanNext]_vars

\* C1: a message that contains the username, the password or the Basic-Auth
\* encoding is sanitized into a string that contains none of the three.
C1_SanitizedHasNoCredential ==
    (sanPc = "done" /\ containsCredential(message, config))
        => ~containsCredential(sanitized, config)

(***************************************************************************)
(* types/index.ts                                                          *)
(***************************************************************************)
VALID_CATEGORIES ==
    <<"global", "dns", "querylog", "stats", "filtering", "safebrowsing",
      "parental", "safesearch", "clients", "dhcp", "rewrites", "tls",
      "blocked_services", "access", "install", "mobile_config">>

AccessTiers == {"read-only", "full"}

\* Array.prototype.includes
arrayIncludes(arr, x) == \E i \in 1..Len(arr) : arr[i] = x

(***************************************************************************)
(* core/config.ts: loadConfig over process.env                             *)
(***************************************************************************)
\* a variable of process.env is None when unset and Some(text) when set;
\* Boolean(v) of it
truthy(v) == v # None /\ v[1] # ""

\* String.prototype.toLowerCase on ASCII
toLowerCase(s) ==
    LET UpperCase == "ABCDEFGHIJKLMNOPQRSTUVWXYZ"
        LowerCase == "abcdefghijklmnopqrstuvwxyz"
        lowerChar(c) ==
            IF includes(UpperCase, c)
            THEN SubSeq(LowerCase, indexOf(UpperCase, c), indexOf(UpperCase, c))
            ELSE c
    IN  Concat([i \in 1..Len(s) |-> lowerChar(SubSeq(s, i, i))])

\* String.prototype.trim
trim(s) ==
    LET WhiteSpace == {" ", "\t", "\n", "\r"}
        kept == {i \in 1..Len(s) : SubSeq(s, i, i) \notin WhiteSpace}
    IN  IF kept = {} THEN ""
        ELSE SubSeq(s, CHOOSE i \in kept : \A j \in kept : i <= j,
                       CHOOSE i \in kept : \A j \in kept : i >= j)

\* String.prototype.split with a one-character separator
RECURSIVE split(_, _)
split(s, sep) ==
    IF indexOf(s, sep) = 0 THEN <<s>>
    ELSE <<SubSeq(s, 1, indexOf(s, sep) - 1)>>
             \o split(SubSeq(s, indexOf(s, sep) + 1, Len(s)), sep)

\* Array.prototype.join
RECURSIVE join(_, _)
join(arr, sep) ==
    IF Len(arr) = 0 THEN ""
    ELSE IF Len(arr) = 1 THEN arr[1]
    ELSE arr[1] \o sep \o join(Tail(arr), sep)

\* url.replace(/\/+$/, '')
stripTrailingSlashes(s) ==
    LET kept == {i \in 1..Len(s) : SubSeq(s, i, i) # "/"}
    IN  IF kept = {} THEN ""
        ELSE SubSeq(s, 1, CHOOSE i \in kept : \A j \in kept : i >= j)

NoConfig ==
    [url |-> "", username |-> "", password |-> "", accessTier |-> "full",
     categories |-> None, debug |-> FALSE, confirmDestructive |-> FALSE]

\* what loadConfig() or one of its parsing blocks ends with
LoadReturned(value) == [threw |-> FALSE, value |-> value, message |-> ""]
LoadThrown(msg) == [threw |-> TRUE, value |-> NoConfig, message |-> msg]

RequiredVariables == <<"ADGUARD_URL", "ADGUARD_USERNAME", "ADGUARD_PASSWORD">>

missingRequired(e) == SelectSeq(RequiredVariables, LAMBDA n : ~truthy(e[n]))

\* a tier block that takes the normalized text without validating it
parseAccessTier_unchecked(tierRaw) ==
    IF ~truthy(tierRaw) THEN LoadReturned("full")
    ELSE LoadReturned(trim(toLowerCase(tierRaw[1])))

\* // Parse access tier
parseAccessTier(tierRaw) ==
    IF ~truthy(tierRaw) THEN LoadReturned("full")
    ELSE LET normalized == trim(toLowerCase(tierRaw[1]))
         IN  IF normalized # "read-only" /\ normalized # "full"
             THEN LoadThrown("Invalid ADGUARD_ACCESS_TIER: \"" \o tierRaw[1]
                                 \o "\". Must be \"read-only\" or \"full\".")
             ELSE LoadReturned(normalized)

\* a parser that takes a list without entries for no list at all
parseCategories_emptyAsNull(categoriesRaw) ==
    IF ~truthy(categoriesRaw) THEN LoadReturned(None)
    ELSE LET pieces == split(categoriesRaw[1], ",")
             mapped == [i \in 1..Len(pieces) |-> toLowerCase(trim(pieces[i]))]
             parsed == SelectSeq(mapped, LAMBDA c : Len(c) > 0)
             invalid == SelectSeq(parsed, LAMBDA c : ~arrayIncludes(VALID_CATEGORIES, c))
         IN  IF Len(invalid) > 0
             THEN LoadThrown("Invalid ADGUARD_CATEGORIES")
             ELSE IF Len(parsed) = 0 THEN LoadReturned(None)
             ELSE LoadReturned(Some(parsed))

\* // Parse categories
parseCategories(categoriesRaw) ==
    IF ~truthy(categoriesRaw) THEN LoadReturned(None)
    ELSE LET pieces == split(categoriesRaw[1], ",")
             mapped == [i \in 1..Len(pieces) |-> toLowerCase(trim(pieces[i]))]
             parsed == SelectSeq(mapped, LAMBDA c : Len(c) > 0)
             invalid == SelectSeq(parsed, LAMBDA c : ~arrayIncludes(VALID_CATEGORIES, c))
             quoted(seq) == [i \in 1..Len(seq) |-> "\"" \o seq[i] \o "\""]
         IN  IF Len(invalid) > 0
             THEN LoadThrown("Invalid ADGUARD_CATEGORIES: " \o join(quoted(invalid), ", ")
                                 \o ". Valid categories: " \o join(VALID_CATEGORIES, ", "))
             ELSE LoadReturned(Some(parsed))

\* export function loadConfig(): AppConfig, on the environment e
loadConfig(e) ==
    IF Len(missingRequired(e)) > 0
    THEN LoadThrown("Missing required environment variables: "
                        \o join(missingRequired(e), ", ")
                        \o ". Set these variables to connect to your AdGuard Home instance.")
    ELSE IF parseAccessTier(e.ADGUARD_ACCESS_TIER).threw
    THEN parseAccessTier(e.ADGUARD_ACCESS_TIER)
    ELSE IF parseCategories(e.ADGUARD_CATEGORIES).threw
    THEN parseCategories(e.ADGUARD_CATEGORIES)
    ELSE LoadReturned(
             [url |-> stripTrailingSlashes(e.ADGUARD_URL[1]),
              username |-> e.ADGUARD_USERNAME[1],
              password |-> e.ADGUARD_PASSWORD[1],
              accessTier |-> parseAccessTier(e.ADGUARD_ACCESS_TIER).value,
              categories |-> parseCategories(e.ADGUARD_CATEGORIES).value,
              debug |-> truthy(e.DEBUG),
              confirmDestructive |->
                  IF e.ADGUARD_CONFIRM_DESTRUCTIVE = None THEN FALSE
                  ELSE toLowerCase(e.ADGUARD_CONFIRM_DESTRUCTIVE[1]) = "true"])

(***************************************************************************)
(* Configuration harness: loadConfig on bounded environments               *)
(***************************************************************************)
ConfigEnvs ==
    [ADGUARD_URL : {None, Some(""), Some("http://adguard.local"),
                    Some("http://adguard.local//"), Some("/")},
     ADGUARD_USERNAME : {None, Some(""), Some("admin")},
     ADGUARD_PASSWORD : {None, Some("s3cret")},
     ADGUARD_ACCESS_TIER : {None, Some(""), Some("read-only"), Some(" Full "),
                            Some("admin"), Some(" ")},
     ADGUARD_CATEGORIES : {None, Some(""), Some("dns"), Some("DNS, stats ,"),
                           Some(","), Some(" "), Some("dns,bogus"), Some("s3cret")},
     ADGUARD_CONFIRM_DESTRUCTIVE : {None, Some("TRUE"), Some("yes")},
     DEBUG : {None, Some("1")}]

ConfigInit ==
    /\ env \in ConfigEnvs
    /\ loaded = None
    /\ config = NoConfig
    /\ SanIdle
    /\ GateIdle
    /\ ClientIdle
    /\ proc = NoProcess
    /\ calls = [c \in CallIds |-> IdleCall]
    /\ remote = NoRemote

LoadConfig ==
    /\ loaded = None
    /\ loaded' = Some(loadConfig(env))
    /\ config' = loadConfig(env).value
    /\ UNCHANGED <<env, sanVars, gateVars, clientVars, proc, calls, remote>>


(***************************************************************************)
(* core/tools.ts: registerTool and the handler wrapper                     *)
(***************************************************************************)
\* config.categories is None for null and Some(list) for an allowlist
tierGateRejects(D, cfg) == cfg.accessTier = "read-only" /\ D.accessTier = "full"

\* a category gate that lets every descriptor through
categoryGateRejects_open(D, cfg) == FALSE

categoryGateRejects(D, cfg) ==
    cfg.categories # None /\ ~arrayIncludes(cfg.categories[1], D.category)

\* annotations whose read-only hint follows the configured tier
buildAnnotations_configTier(D) ==
    LET base == [readOnlyHint |-> config.accessTier = "read-only",
                 destructiveHint |-> FALSE]
        own  == IF D.annotations = None THEN <<>> ELSE D.annotations[1]
    IN  [k \in DOMAIN base \cup DOMAIN own |->
            IF k \in DOMAIN own THEN own[k] ELSE base[k]]

\* { readOnlyHint, destructiveHint: false, ...registration.annotations }
buildAnnotations(D) ==
    LET base == [readOnlyHint |-> D.accessTier = "read-only", destructiveHint |-> FALSE]
        own  == IF D.annotations = None THEN <<>> ELSE D.annotations[1]
    IN  [k \in DOMAIN base \cup DOMAIN own |->
            IF k \in DOMAIN own THEN own[k] ELSE base[k]]

\* a gate that forgets the tier check
registerToolAccepts_noTier(D, cfg) == ~categoryGateRejects(D, cfg)

registerToolAccepts(D, cfg) ==
    IF tierGateRejects(D, cfg) THEN FALSE
    ELSE IF categoryGateRejects(D, cfg) THEN FALSE
    ELSE TRUE

\* a registerTool that tests the category filter before the access tier
gateMessage_categoryFirst(D, cfg) ==
    IF categoryGateRejects(D, cfg)
    THEN "Skipping tool \"" \o D.name \o "\" (category \"" \o D.category
             \o "\" not in allowed categories)"
    ELSE IF tierGateRejects(D, cfg)
    THEN "Skipping tool \"" \o D.name
             \o "\" (requires full access, running in read-only mode)"
    ELSE "Registered tool: " \o D.name \o " [" \o D.category \o "]"

\* the one logger.debug call registerTool makes: in the branch of the first
\* test that rejects, or after server.registerTool
gateMessage(D, cfg) ==
    IF tierGateRejects(D, cfg)
    THEN "Skipping tool \"" \o D.name
             \o "\" (requires full access, running in read-only mode)"
    ELSE IF categoryGateRejects(D, cfg)
    THEN "Skipping tool \"" \o D.name \o "\" (category \"" \o D.category
             \o "\" not in allowed categories)"
    ELSE "Registered tool: " \o D.name \o " [" \o D.category \o "]"

\* registerTool(server, registration, config): the server's tools afterwards,
\* the value returned and the logger.debug calls made
registerTool(server, D, cfg) ==
    IF registerToolAccepts(D, cfg)
    THEN [server |-> [n \in DOMAIN server \cup {D.name} |->
                         IF n = D.name
                         THEN [category |-> D.category, accessTier |-> D.accessTier,
                               annotations |-> buildAnnotations(D)]
                         ELSE server[n]],
          ret |-> TRUE, log |-> <<gateMessage(D, cfg)>>]
    ELSE [server |-> server, ret |-> FALSE, log |-> <<gateMessage(D, cfg)>>]

\* The outcome of the underlying handler: it resolves with a string, throws
\* an Error carrying a message, or throws a value that is not an Error.
Resolve(text) == [kind |-> "resolve", text |-> text]
ThrowError(msg) == [kind |-> "throwError", text |-> msg]
ThrowOther == [kind |-> "throwOther", text |-> ""]

UNKNOWN_ERROR == "An unknown error occurred"

\* a wrapper that lets a thrown non-Error value through
wrapHandler_rethrow(outcome, cfg) ==
    IF outcome.kind = "resolve"
    THEN [threw |-> FALSE, text |-> outcome.text, isError |-> FALSE]
    ELSE IF outcome.kind = "throwError"
    THEN [threw |-> FALSE, text |-> sanitizeMessage(outcome.text, cfg), isError |-> TRUE]
    ELSE [threw |-> TRUE, text |-> "", isError |-> FALSE]

\* async (args) => { try { ... } catch (err) { ... } }: the value the transport
\* receives; threw says whether an exception left the wrapper
wrapHandler(outcome, cfg) ==
    IF outcome.kind = "resolve"
    THEN [threw |-> FALSE, text |-> outcome.text, isError |-> FALSE]
    ELSE [threw |-> FALSE,
          text |-> IF outcome.kind = "throwError"
                   THEN sanitizeMessage(outcome.text, cfg)
                   ELSE UNKNOWN_ERROR,
          isError |-> TRUE]

(***************************************************************************)
(* Gate harness: registerTool on arbitrary descriptors, then calls of the  *)
(* wrapped handlers by the transport                                       *)
(***************************************************************************)
GateNames == {"x", "y"}
GateCategories == {"dns", "tls"}
GateAnnotations ==
    {None, Some([destructiveHint |-> TRUE]), Some([readOnlyHint |-> TRUE])}

Descriptors ==
    [name : GateNames, category : GateCategories, accessTier : AccessTiers,
     annotations : GateAnnotations]

GateConfigs ==
    [url : {"http://adguard.local"}, username : {"admin"}, password : {"s3cret"},
     accessTier : AccessTiers,
     categories : {None, Some(<<>>), Some(<<"dns", "stats">>)},
     debug : {FALSE}, confirmDestructive : {FALSE}]

HandlerOutcomes(cfg) ==
    {Resolve("ok"), ThrowOther,
     ThrowError("GET status failed: 500 boom"),
     ThrowError("connect to " \o cfg.username \o ":" \o cfg.password \o "@host")}

GateInit ==
    /\ config \in GateConfigs
    /\ SanIdle
    /\ GateIdle
    /\ ClientIdle
    /\ MainIdle

\* registerTool(server, D, config) for a descriptor whose name is not taken
RegisterTool(D) ==
    /\ D.name \notin DOMAIN registered
    /\ gateArg' = Some(D)
    /\ registered' = registerTool(registered, D, config).server
    /\ gateRet' = Some(registerTool(registered, D, config).ret)
    /\ gateLog' = registerTool(registered, D, config).log
    /\ UNCHANGED <<config, sanVars, wrapCall, failures, clientVars, mainVars>>

\* an exception that leaves a wrapped handler disrupts the transport
transportUp == IF wrapCall = None THEN TRUE ELSE ~wrapCall[1].result.threw

\* the transport dispatches a call to a registered tool's wrapped handler
CallWrapped(name, outcome) ==
    /\ name \in DOMAIN registered
    /\ transportUp
    /\ LET r == wrapHandler(outcome, config)
       IN  /\ wrapCall' = Some([name |-> name, outcome |-> outcome, result |-> r])
           /\ failures' = IF (r.isError \/ r.threw) /\ failures < MaxFailures
                          THEN failures + 1 ELSE failures
    /\ UNCHANGED <<config, sanVars, registered, gateArg, gateRet, gateLog, clientVars,
                   mainVars>>

GateNext ==
    \/ \E D \in Descriptors : RegisterTool(D)
    \/ \E n \in GateNames : \E o \in HandlerOutcomes(config) : CallWrapped(n, o)

SpecGate == GateInit /\ [][GateNext]_vars

(***************************************************************************)
(* core/auth.ts and core/client.ts                                         *)
(***************************************************************************)
createAuthHeader(username, password) ==
    "Basic " \o toBase64(username \o ":" \o password)

\* new AdGuardClient(config)
newClient(cfg) ==
    [authHeader |-> createAuthHeader(cfg.username, cfg.password),
     baseUrl |-> cfg.url \o "/control"]

\* What fetch settles with: a response, or a rejection (network failure or
\* the AbortSignal.timeout of REQUEST_TIMEOUT_MS) that carries an Error.
HttpResponse(status, statusText, contentType, contentLength, body) ==
    [kind |-> "response", status |-> status, statusText |-> statusText,
     contentType |-> contentType, contentLength |-> contentLength,
     body |-> body, errMessage |-> ""]

FetchFailure(msg) ==
    [kind |-> "failure", status |-> 0, statusText |-> "", contentType |-> None,
     contentLength |-> None, body |-> "", errMessage |-> msg]

\* Response.ok
responseOk(resp) == resp.status >= 200 /\ resp.status <= 299

\* JavaScript values a client method resolves with
jsString(str) == [type |-> "string", v |-> str]
jsBoolean(str) == [type |-> "boolean", v |-> str]
jsNumber(str) == [type |-> "number", v |-> str]
jsNull == [type |-> "null", v |-> ""]
jsUndefined == [type |-> "undefined", v |-> ""]
\* an object, kept as its JSON text
jsObject(text) == [type |-> "object", v |-> text]

\* thrown values
AdGuardError(msg, statusCode) ==
    [name |-> "AdGuardError", message |-> msg, statusCode |-> statusCode]
OtherError(name, msg) == [name |-> name, message |-> msg, statusCode |-> None]
NoError == [name |-> "", message |-> "", statusCode |-> None]

Returned(value) == [threw |-> FALSE, value |-> value, error |-> NoError]
Thrown(err) == [threw |-> TRUE, value |-> jsUndefined, error |-> err]

\* JSON.parse on the bodies of the model: the literals, digit strings,
\* quoted strings without escapes and one-member objects are JSON texts;
\* every other body of the model is not, and makes JSON.parse throw a
\* SyntaxError
isDigits(text) ==
    /\ Len(text) > 0
    /\ \A i \in 1..Len(text) : includes("0123456789", SubSeq(text, i, i))

isQuoted(text) ==
    /\ Len(text) >= 2
    /\ SubSeq(text, 1, 1) = "\""
    /\ SubSeq(text, Len(text), Len(text)) = "\""
    /\ \A i \in 2..(Len(text) - 1) : SubSeq(text, i, i) \notin {"\"", "\\"}

\* an object with one member whose value is true or false: {"key":true}
isFlatObject(text) ==
    /\ Len(text) >= 2
    /\ SubSeq(text, 1, 1) = "{"
    /\ SubSeq(text, Len(text), Len(text)) = "}"
    /\ \E i \in 2..(Len(text) - 1) :
          /\ isQuoted(SubSeq(text, 2, i))
          /\ SubSeq(text, i + 1, i + 1) = ":"
          /\ SubSeq(text, i + 2, Len(text) - 1) \in {"true", "false"}

jsonParse(text) ==
    IF text = "true" \/ text = "false" THEN Returned(jsBoolean(text))
    ELSE IF isFlatObject(text) THEN Returned(jsObject(text))
    ELSE IF text = "null" THEN Returned(jsNull)
    ELSE IF isDigits(text) THEN Returned(jsNumber(text))
    ELSE IF isQuoted(text) THEN Returned(jsString(SubSeq(text, 2, Len(text) - 1)))
    ELSE IF text = "" THEN Thrown(OtherError("SyntaxError", "Unexpected end of JSON input"))
    ELSE Thrown(OtherError("SyntaxError",
                           "Unexpected token in JSON: \"" \o text \o "\" is not valid JSON"))

headerOr(h, default) == IF h = None THEN default ELSE h[1]

\* a parseResponse that decodes every body as JSON, whatever the content type
parseResponse_ignoreType(resp) ==
    jsonParse(resp.body)

\* private parseResponse(response)
parseResponse(resp) ==
    LET contentType == headerOr(resp.contentType, "")
    IN  IF includes(contentType, "json")
        THEN jsonParse(resp.body)
        ELSE Returned(jsString(resp.body))

\* catch (err) that wraps every error again, an AdGuardError included
clientCatch_rewrap(outcome, cfg) ==
    IF outcome.threw
    THEN Thrown(AdGuardError(sanitizeMessage(outcome.error.message, cfg), None))
    ELSE outcome

\* catch (err) { if (err instanceof AdGuardError) throw err; throw new AdGuardError(sanitized) }
clientCatch(outcome, cfg) ==
    IF outcome.threw /\ outcome.error.name # "AdGuardError"
    THEN Thrown(AdGuardError(sanitizeMessage(outcome.error.message, cfg), None))
    ELSE outcome

statusError(method, path, resp, cfg) ==
    AdGuardError(
        sanitizeMessage(method \o " " \o path \o " failed: " \o ToString(resp.status)
                            \o " " \o resp.statusText, cfg),
        Some(resp.status))

\* async get(path), given what fetch settled with
clientGet(path, resp, cfg) ==
    clientCatch(
        IF resp.kind = "failure" THEN Thrown(OtherError("TypeError", resp.errMessage))
        ELSE IF ~responseOk(resp) THEN Thrown(statusError("GET", path, resp, cfg))
        ELSE parseResponse(resp),
        cfg)

\* a post without the content-length shortcut of lines 94-98
clientPost_noLengthCheck(path, resp, cfg) ==
    clientCatch(
        IF resp.kind = "failure" THEN Thrown(OtherError("TypeError", resp.errMessage))
        ELSE IF ~responseOk(resp) THEN Thrown(statusError("POST", path, resp, cfg))
        ELSE IF resp.body = "" THEN Returned(jsString(""))
        ELSE IF includes(headerOr(resp.contentType, ""), "json")
             THEN IF jsonParse(resp.body).threw
                  THEN Returned(jsString(resp.body))
                  ELSE jsonParse(resp.body)
        ELSE Returned(jsString(resp.body)),
        cfg)

\* async post(path, body), given what fetch settled with
clientPost(path, resp, cfg) ==
    clientCatch(
        IF resp.kind = "failure" THEN Thrown(OtherError("TypeError", resp.errMessage))
        ELSE IF ~responseOk(resp) THEN Thrown(statusError("POST", path, resp, cfg))
        ELSE IF resp.contentLength = Some("0") THEN Returned(jsString(""))
        ELSE IF resp.body = "" THEN Returned(jsString(""))
        ELSE IF includes(headerOr(resp.contentType, ""), "json")
             THEN IF jsonParse(resp.body).threw
                  THEN Returned(jsString(resp.body))
                  ELSE jsonParse(resp.body)
        ELSE Returned(jsString(resp.body)),
        cfg)

\* async getRaw(path), given what fetch settled with
clientGetRaw(path, resp, cfg) ==
    clientCatch(
        IF resp.kind = "failure" THEN Thrown(OtherError("TypeError", resp.errMessage))
        ELSE IF ~responseOk(resp) THEN Thrown(statusError("GET", path, resp, cfg))
        ELSE Returned(jsString(resp.body)),
        cfg)

AUTH_FAILED == "Authentication failed -- check ADGUARD_USERNAME and ADGUARD_PASSWORD"

\* a connection check that treats 401/403 like any other failed status
validateConnection_noAuthCase(resp, cfg) ==
    IF resp.kind = "failure"
    THEN Thrown(AdGuardError(
             sanitizeMessage("Cannot connect to AdGuard Home at " \o cfg.url \o ": "
                                 \o resp.errMessage, cfg), None))
    ELSE IF ~responseOk(resp)
    THEN Thrown(AdGuardError(
             sanitizeMessage("Connection check failed: " \o ToString(resp.status)
                                 \o " " \o resp.statusText, cfg), Some(resp.status)))
    ELSE Returned(jsUndefined)

\* a connection check that reports a failed status without sanitizing it
validateConnection_rawStatus(resp, cfg) ==
    IF resp.kind = "failure"
    THEN Thrown(AdGuardError(
             sanitizeMessage("Cannot connect to AdGuard Home at " \o cfg.url \o ": "
                                 \o resp.errMessage, cfg), None))
    ELSE IF resp.status = 401 \/ resp.status = 403
    THEN Thrown(AdGuardError(AUTH_FAILED, Some(resp.status)))
    ELSE IF ~responseOk(resp)
    THEN Thrown(AdGuardError(
             "Connection check failed: " \o ToString(resp.status)
                 \o " " \o resp.statusText, Some(resp.status)))
    ELSE Returned(jsUndefined)

\* async validateConnection(), given what fetch settled with
validateConnection(resp, cfg) ==
    IF resp.kind = "failure"
    THEN Thrown(AdGuardError(
             sanitizeMessage("Cannot connect to AdGuard Home at " \o cfg.url \o ": "
                                 \o resp.errMessage, cfg), None))
    ELSE IF resp.status = 401 \/ resp.status = 403
    THEN Thrown(AdGuardError(AUTH_FAILED, Some(resp.status)))
    ELSE IF ~responseOk(resp)
    THEN Thrown(AdGuardError(
             sanitizeMessage("Connection check failed: " \o ToString(resp.status)
                                 \o " " \o resp.statusText, cfg), Some(resp.status)))
    ELSE Returned(jsUndefined)

\* the request a client method hands to fetch
HttpRequest(cl, method, path, body) ==
    [method |-> method, url |-> cl.baseUrl \o "/" \o path,
     authorization |-> cl.authHeader,
     contentType |-> IF body = None THEN None ELSE Some("application/json"),
     body |-> body]

\* a client method that sends its request a second time
fetchRequests_twice(cl, method, path, body) ==
    <<HttpRequest(cl, method, path, body), HttpRequest(cl, method, path, body)>>

\* a client that numbers its requests with a counter all calls share
fetchRequests_numbered(cl, method, path, body) ==
    <<[HttpRequest(cl, method, path, body) EXCEPT
          !.authorization = @ \o ToString(Len(requestLog))]>>

\* the requests one call of get, post, getRaw or validateConnection hands to
\* fetch: each method calls fetch once, outside any loop
fetchRequests(cl, method, path, body) == <<HttpRequest(cl, method, path, body)>>

(***************************************************************************)
(* Client harness: calls of the client's methods against bounded responses *)
(***************************************************************************)
ClientConfigs ==
    [url : {"http://adguard.local"}, username : {"admin", "u"}, password : {"s3cret"},
     accessTier : {"full"}, categories : {None}, debug : {FALSE},
     confirmDestructive : {FALSE}]

StatusTexts(cfg) == {"Internal Server Error", "denied for " \o cfg.password}

Bodies == {"", "true", "\"ok\"", "not json"}

OkResponses ==
    {HttpResponse(200, "OK", ct, cl, b) :
        ct \in {None, Some("application/json; charset=utf-8"), Some("text/plain")},
        cl \in {None, Some("0")},
        b \in Bodies}

FailedResponses(cfg) ==
    {HttpResponse(st, t, None, None, "") :
        st \in {401, 403, 404, 500}, t \in StatusTexts(cfg)}

FetchFailures(cfg) ==
    {FetchFailure("fetch failed"),
     FetchFailure("The operation was aborted due to timeout"),
     FetchFailure("connect ECONNREFUSED " \o cfg.username \o ":" \o cfg.password \o "@host")}

Responses(cfg) == OkResponses \cup FailedResponses(cfg) \cup FetchFailures(cfg)

Paths == {"status", "stats_reset"}
PostBodies == {None, Some("{}")}

ClientInit ==
    /\ config \in ClientConfigs
    /\ SanIdle
    /\ GateIdle
    /\ MainIdle
    /\ client = newClient(config)
    /\ clientCall = None
    /\ requestLog = <<>>

ClientCallDone(op, method, path, body, resp, outcome) ==
    /\ Len(requestLog) < MaxRequests
    /\ requestLog' = requestLog \o fetchRequests(client, method, path, body)
    /\ clientCall' = Some([op |-> op, method |-> method, path |-> path,
                           resp |-> resp, outcome |-> outcome])
    /\ UNCHANGED <<config, sanVars, gateVars, client, mainVars>>

Get(path, resp) ==
    ClientCallDone("get", "GET", path, None, resp, clientGet(path, resp, config))

Post(path, body, resp) ==
    ClientCallDone("post", "POST", path, body, resp, clientPost(path, resp, config))

GetRaw(path, resp) ==
    ClientCallDone("getRaw", "GET", path, None, resp, clientGetRaw(path, resp, config))

ValidateConnection(resp) ==
    ClientCallDone("validateConnection", "GET", "status", None, resp,
                   validateConnection(resp, config))

ClientNext ==
    \/ \E p \in Paths, r \in Responses(config) : Get(p, r)
    \/ \E p \in Paths, b \in PostBodies, r \in Responses(config) : Post(p, b, r)
    \/ \E p \in Paths, r \in Responses(config) : GetRaw(p, r)
    \/ \E r \in Responses(config) : ValidateConnection(r)

SpecClient == ClientInit /\ [][ClientNext]_vars

(***************************************************************************)
(* tools/*.ts: the tool catalog, and the reset and delete handlers          *)
(***************************************************************************)
CONFIRM_PROMPT ==
    "This is a destructive operation that cannot be undone. Set confirm: true to proceed."

\* descriptors that mark the reset and clear tools as destructive
Tool_marked(name, category, accessTier) ==
    [name |-> name, category |-> category, accessTier |-> accessTier,
     annotations |-> IF name \in {"stats_reset", "querylog_clear", "dhcp_reset",
                                  "dhcp_reset_leases"}
                     THEN Some([destructiveHint |-> TRUE]) ELSE None]

Tool(name, category, accessTier) ==
    [name |-> name, category |-> category, accessTier |-> accessTier,
     annotations |-> None]

\* registerGlobalTools
GlobalTools ==
    <<Tool("global_get_status", "global", "read-only"),
      Tool("global_get_profile", "global", "read-only"),
      Tool("global_check_version", "global", "read-only"),
      Tool("global_set_protection", "global", "full"),
      Tool("global_update_profile", "global", "full"),
      Tool("global_begin_update", "global", "full")>>

\* registerDnsTools
DnsTools ==
    <<Tool("dns_get_info", "dns", "read-only"),
      Tool("dns_test_upstream", "dns", "read-only"),
      Tool("dns_set_config", "dns", "full"),
      Tool("dns_clear_cache", "dns", "full")>>

\* registerQuerylogTools
QuerylogTools ==
    <<Tool("querylog_get", "querylog", "read-only"),
      Tool("querylog_get_config", "querylog", "read-only"),
      Tool("querylog_set_config", "querylog", "full"),
      Tool("querylog_clear", "querylog", "full")>>

\* registerStatsTools
StatsTools ==
    <<Tool("stats_get", "stats", "read-only"),
      Tool("stats_get_config", "stats", "read-only"),
      Tool("stats_reset", "stats", "full"),
      Tool("stats_set_config", "stats", "full")>>

\* registerFilteringTools
FilteringTools ==
    <<Tool("filtering_get_status", "filtering", "read-only"),
      Tool("filtering_check_host", "filtering", "read-only"),
      Tool("filtering_set_config", "filtering", "full"),
      Tool("filtering_add_url", "filtering", "full"),
      Tool("filtering_remove_url", "filtering", "full"),
      Tool("filtering_set_url", "filtering", "full"),
      Tool("filtering_refresh", "filtering", "full"),
      Tool("filtering_set_rules", "filtering", "full")>>

\* registerSafebrowsingTools
SafebrowsingTools ==
    <<Tool("safebrowsing_get_status", "safebrowsing", "read-only"),
      Tool("safebrowsing_set", "safebrowsing", "full")>>

\* registerParentalTools
ParentalTools ==
    <<Tool("parental_get_status", "parental", "read-only"),
      Tool("parental_set", "parental", "full")>>

\* registerSafesearchTools
SafesearchTools ==
    <<Tool("safesearch_get_status", "safesearch", "read-only"),
      Tool("safesearch_set_settings", "safesearch", "full")>>

\* registerClientsTools
ClientsTools ==
    <<Tool("clients_get", "clients", "read-only"),
      Tool("clients_search", "clients", "read-only"),
      Tool("clients_add", "clients", "full"),
      Tool("clients_update", "clients", "full"),
      Tool("clients_delete", "clients", "full")>>

\* registerDhcpTools
DhcpTools ==
    <<Tool("dhcp_get_status", "dhcp", "read-only"),
      Tool("dhcp_get_interfaces", "dhcp", "read-only"),
      Tool("dhcp_find_active", "dhcp", "read-only"),
      Tool("dhcp_set_config", "dhcp", "full"),
      Tool("dhcp_add_static_lease", "dhcp", "full"),
      Tool("dhcp_remove_static_lease", "dhcp", "full"),
      Tool("dhcp_update_static_lease", "dhcp", "full"),
      Tool("dhcp_reset", "dhcp", "full"),
      Tool("dhcp_reset_leases", "dhcp", "full")>>

\* registerRewritesTools
RewritesTools ==
    <<Tool("rewrites_list", "rewrites", "read-only"),
      Tool("rewrites_get_settings", "rewrites", "read-only"),
      Tool("rewrites_add", "rewrites", "full"),
      Tool("rewrites_update", "rewrites", "full"),
      Tool("rewrites_delete", "rewrites", "full"),
      Tool("rewrites_set_settings", "rewrites", "full")>>

\* registerTlsTools
TlsTools ==
    <<Tool("tls_get_status", "tls", "read-only"),
      Tool("tls_validate", "tls", "read-only"),
      Tool("tls_set_config", "tls", "full")>>

\* registerBlockedServicesTools
BlockedServicesTools ==
    <<Tool("blocked_services_get_all", "blocked_services", "read-only"),
      Tool("blocked_services_get", "blocked_services", "read-only"),
      Tool("blocked_services_update", "blocked_services", "full")>>

\* registerAccessTools
AccessTools ==
    <<Tool("access_get_list", "access", "read-only"),
      Tool("access_set_list", "access", "full")>>

\* registerInstallTools
InstallTools ==
    <<Tool("install_get_addresses", "install", "read-only"),
      Tool("install_check_config", "install", "full"),
      Tool("install_apply_config", "install", "full")>>

\* registerMobileConfigTools
MobileConfigTools ==
    <<Tool("mobile_config_get_doh", "mobile_config", "read-only"),
      Tool("mobile_config_get_dot", "mobile_config", "read-only")>>

\* a catalog that leaves out the mobile_config tools
Catalog_withoutMobileConfig ==
    GlobalTools \o DnsTools \o QuerylogTools \o StatsTools \o
        FilteringTools \o SafebrowsingTools \o ParentalTools \o
        SafesearchTools \o ClientsTools \o DhcpTools \o RewritesTools \o
        TlsTools \o BlockedServicesTools \o AccessTools \o InstallTools

\* the descriptors in the order registerAllTools hands them to registerTool
Catalog ==
    GlobalTools \o DnsTools \o QuerylogTools \o StatsTools \o
        FilteringTools \o SafebrowsingTools \o ParentalTools \o
        SafesearchTools \o ClientsTools \o DhcpTools \o RewritesTools \o
        TlsTools \o BlockedServicesTools \o AccessTools \o InstallTools \o
        MobileConfigTools

\* the tools whose handlers are followed call by call
HandlerTools ==
    {"querylog_clear", "stats_reset", "filtering_remove_url", "clients_delete",
     "dhcp_remove_static_lease", "dhcp_reset", "dhcp_reset_leases", "rewrites_delete",
     "parental_get_status", "mobile_config_get_doh", "global_set_protection"}

\* the handlers that test config.confirmDestructive
GuardedTools == {"stats_reset", "querylog_clear", "dhcp_reset", "dhcp_reset_leases"}

\* the read-only tools whose handler is client.get on a fixed path: the
\* path each of them names
PlainGetPath ==
    [global_get_status |-> "status", global_get_profile |-> "profile",
     querylog_get_config |-> "querylog/config", tls_get_status |-> "tls/status",
     stats_get_config |-> "stats/config",
     safesearch_get_status |-> "safesearch/status", clients_get |-> "clients",
     safebrowsing_get_status |-> "safebrowsing/status",
     rewrites_list |-> "rewrite/list", rewrites_get_settings |-> "rewrite/settings",
     filtering_get_status |-> "filtering/status", dns_get_info |-> "dns_info",
     dhcp_get_status |-> "dhcp/status", dhcp_get_interfaces |-> "dhcp/interfaces",
     blocked_services_get_all |-> "blocked_services/all",
     blocked_services_get |-> "blocked_services/get",
     access_get_list |-> "access/list",
     install_get_addresses |-> "install/get_addresses"]

PlainGetTools == DOMAIN PlainGetPath

\* the arguments a caller sends; confirm is "absent", "true" or "false"
ConfirmValues == {"absent", "true", "false"}

ToolArgs(tool) ==
    CASE tool = "clients_delete" -> [confirm : ConfirmValues, name : {"tv"}]
      [] tool = "rewrites_delete" ->
            [confirm : ConfirmValues, domain : {"a.example"}, answer : {"10.0.0.1"}]
      [] tool = "dhcp_remove_static_lease" ->
            [confirm : ConfirmValues, mac : {"aa:bb"}, ip : {"10.0.0.2"}, hostname : {"tv"}]
      [] tool = "filtering_remove_url" ->
            [confirm : ConfirmValues, url : {"https://list.example"}, whitelist : {"false"}]
      [] tool = "mobile_config_get_doh" ->
            [host : {"dns.example", "h/1"}, client_id : {None, Some("tv 1")}]
      [] tool = "mobile_config_get_dot" ->
            [host : {"dns.example"}, client_id : {None, Some("tv 1")}]
      [] tool = "parental_get_status" -> {<<>>}
      [] tool \in PlainGetTools -> {<<>>}
      [] tool = "global_check_version" -> [recheck_now : {None, Some("true")}]
      [] tool = "querylog_get" ->
            [older_than : {None}, offset : {None, Some(0)}, limit : {None},
             search : {None, Some("")}, response_status : {None}]
      [] tool = "stats_get" -> [recent : {None, Some(3600000)}]
      [] tool = "filtering_check_host" ->
            [name : {"a.example"}, client : {None, Some("tv")}, qtype : {None}]
      [] tool = "dns_test_upstream" ->
            [upstream_dns : {<<"1.1.1.1">>}, bootstrap_dns : {<<>>},
             fallback_dns : {None, Some(<<"9.9.9.9">>)}, private_upstream : {None}]
      [] tool = "clients_search" -> [ids : {<<"tv">>}]
      [] tool = "dhcp_find_active" -> [interface : {"eth0"}]
      [] tool = "tls_validate" -> [certificate_path : {None, Some("/etc/cert.pem")}]
      [] tool = "global_set_protection" ->
            [enabled : {"true", "false"}, duration : {None, Some(0), Some(60)}]
      [] tool = "rewrites_update" ->
            [domain : {"a.example"}, answer : {"10.0.0.1"}, new_domain : {None},
             new_answer : {Some("10.0.0.2"), Some("10.0.0.3")}]
      [] tool = "dhcp_update_static_lease" ->
            [mac : {"aa:bb"}, ip : {"10.0.0.2"}, hostname : {"tv"}, new_mac : {None},
             new_ip : {Some("10.0.0.9")}, new_hostname : {None}]
      [] OTHER -> [confirm : ConfirmValues]

\* JSON.stringify of a string without characters to escape
jsonString(str) == "\"" \o str \o "\""

\* the application/x-www-form-urlencoded serializer of URLSearchParams
formEncode(str) ==
    LET HexDigits == "0123456789ABCDEF"
        hexByte(n) ==
            SubSeq(HexDigits, (n \div 16) + 1, (n \div 16) + 1)
                \o SubSeq(HexDigits, (n % 16) + 1, (n % 16) + 1)
        FormUnreserved ==
            "*-._0123456789ABCDEFGHIJKLMNOPQRSTUVWXYZabcdefghijklmnopqrstuvwxyz"
    IN
    Concat([i \in 1..Len(str) |->
        IF includes(FormUnreserved, SubSeq(str, i, i)) THEN SubSeq(str, i, i)
        ELSE IF SubSeq(str, i, i) = " " THEN "+"
        ELSE "%" \o hexByte(charCode(SubSeq(str, i, i)))])

\* params.set('host', host); if (client_id) params.set('client_id', client_id);
\* params.toString()
mobileConfigParams(args) ==
    "host=" \o formEncode(args.host)
        \o (IF truthy(args.client_id)
            THEN "&client_id=" \o formEncode(args.client_id[1])
            ELSE "")

\* new URLSearchParams() with params.set(key, value) for the pairs that
\* carry a value, then toString()
RECURSIVE searchParams(_)
searchParams(pairs) ==
    IF pairs = <<>> THEN ""
    ELSE IF Head(pairs)[2] = None THEN searchParams(Tail(pairs))
    ELSE Head(pairs)[1] \o "=" \o formEncode(Head(pairs)[2][1])
             \o (IF searchParams(Tail(pairs)) = "" THEN ""
                 ELSE "&" \o searchParams(Tail(pairs)))

\* JSON.stringify of an array of strings
jsonArray(strs) ==
    "[" \o join([i \in 1..Len(strs) |-> jsonString(strs[i])], ",") \o "]"

\* the client method the handler calls
toolOp(tool) ==
    CASE tool = "parental_get_status" -> "get"
      [] tool \in PlainGetTools -> "get"
      [] tool \in {"querylog_get", "stats_get", "filtering_check_host"} -> "get"
      [] tool \in {"mobile_config_get_doh", "mobile_config_get_dot"} -> "getRaw"
      [] OTHER -> "post"

toolMethod(tool) == IF toolOp(tool) = "post" THEN "POST" ELSE "GET"

toolPath(tool, args) ==
    CASE tool = "stats_reset" -> "stats_reset"
      [] tool = "parental_get_status" -> "parental/status"
      [] tool = "mobile_config_get_doh" ->
            "apple/doh.mobileconfig?" \o mobileConfigParams(args)
      [] tool = "mobile_config_get_dot" ->
            "apple/dot.mobileconfig?" \o mobileConfigParams(args)
      [] tool \in PlainGetTools -> PlainGetPath[tool]
      [] tool = "querylog_get" ->
            LET query == searchParams(
                    <<<<"older_than", IF truthy(args.older_than)
                                      THEN args.older_than ELSE None>>,
                      <<"offset", IF args.offset = None THEN None
                                  ELSE Some(ToString(args.offset[1]))>>,
                      <<"limit", IF args.limit = None THEN None
                                 ELSE Some(ToString(args.limit[1]))>>,
                      <<"search", IF truthy(args.search) THEN args.search ELSE None>>,
                      <<"response_status", IF truthy(args.response_status)
                                           THEN args.response_status ELSE None>>>>)
            IN  IF query # "" THEN "querylog?" \o query ELSE "querylog"
      [] tool = "stats_get" ->
            IF args.recent # None
            THEN "stats?" \o searchParams(<<<<"recent", Some(ToString(args.recent[1]))>>>>)
            ELSE "stats"
      [] tool = "filtering_check_host" ->
            "filtering/check_host?"
                \o searchParams(
                       <<<<"name", Some(args.name)>>,
                         <<"client", IF truthy(args.client) THEN args.client ELSE None>>,
                         <<"qtype", IF truthy(args.qtype) THEN args.qtype ELSE None>>>>)
      [] tool = "dns_test_upstream" -> "test_upstream_dns"
      [] tool = "clients_search" -> "clients/search"
      [] tool = "dhcp_find_active" -> "dhcp/find_active_dhcp"
      [] tool = "tls_validate" -> "tls/validate"
      [] tool = "querylog_clear" -> "querylog_clear"
      [] tool = "global_set_protection" -> "dns_config"
      [] tool = "dhcp_reset" -> "dhcp/reset"
      [] tool = "dhcp_reset_leases" -> "dhcp/reset_leases"
      [] tool = "clients_delete" -> "clients/delete"
      [] tool = "rewrites_delete" -> "rewrite/delete"
      [] tool = "dhcp_remove_static_lease" -> "dhcp/remove_static_lease"
      [] tool = "filtering_remove_url" -> "filtering/remove_url"

\* the body argument of client.post, serialized as fetch receives it
toolBody(tool, args) ==
    CASE tool \in {"stats_reset", "querylog_clear", "parental_get_status",
                    "mobile_config_get_doh"} -> None
      [] toolOp(tool) # "post" -> None
      [] tool = "dns_test_upstream" ->
            Some("{\"upstream_dns\":" \o jsonArray(args.upstream_dns)
                     \o ",\"bootstrap_dns\":" \o jsonArray(args.bootstrap_dns)
                     \o (IF args.fallback_dns # None
                         THEN ",\"fallback_dns\":" \o jsonArray(args.fallback_dns[1])
                         ELSE "")
                     \o (IF args.private_upstream # None
                         THEN ",\"private_upstream\":"
                                  \o jsonArray(args.private_upstream[1])
                         ELSE "")
                     \o "}")
      [] tool = "clients_search" ->
            Some("{\"clients\":["
                     \o join([i \in 1..Len(args.ids) |->
                                 "{\"id\":" \o jsonString(args.ids[i]) \o "}"], ",")
                     \o "]}")
      [] tool = "dhcp_find_active" ->
            Some("{\"interface\":" \o jsonString(args.interface) \o "}")
      [] tool = "tls_validate" ->
            Some(IF args.certificate_path = None THEN "{}"
                 ELSE "{\"certificate_path\":"
                          \o jsonString(args.certificate_path[1]) \o "}")
      [] tool \in {"dhcp_reset", "dhcp_reset_leases"} -> Some("{}")
      [] tool = "global_set_protection" ->
            Some("{\"protection_enabled\":" \o args.enabled
                     \o (IF args.duration # None
                         THEN ",\"protection_disabled_duration\":"
                                  \o ToString(args.duration[1])
                         ELSE "")
                     \o "}")
      [] tool = "clients_delete" -> Some("{\"name\":" \o jsonString(args.name) \o "}")
      [] tool = "rewrites_delete" ->
            Some("{\"domain\":" \o jsonString(args.domain)
                     \o ",\"answer\":" \o jsonString(args.answer) \o "}")
      [] tool = "dhcp_remove_static_lease" ->
            Some("{\"mac\":" \o jsonString(args.mac) \o ",\"ip\":" \o jsonString(args.ip)
                     \o ",\"hostname\":" \o jsonString(args.hostname) \o "}")
      [] tool = "filtering_remove_url" ->
            Some("{\"url\":" \o jsonString(args.url)
                     \o ",\"whitelist\":" \o args.whitelist \o "}")

\* JSON.stringify({ domain, answer })
rewriteEntry(domain, answer) ==
    "{\"domain\":" \o jsonString(domain) \o ",\"answer\":" \o jsonString(answer) \o "}"

\* JSON.stringify({ mac, ip, hostname })
leaseEntry(mac, ip, hostname) ==
    "{\"mac\":" \o jsonString(mac) \o ",\"ip\":" \o jsonString(ip)
        \o ",\"hostname\":" \o jsonString(hostname) \o "}"

\* (args.new_x as string | undefined) || x
orElse(opt, x) == IF truthy(opt) THEN opt[1] ELSE x

\* the client calls a handler makes, in order; it makes the next one when
\* the one before has returned
toolCalls(tool, args) ==
    CASE tool = "global_check_version" ->
            <<[op |-> "post", method |-> "POST", path |-> "version.json",
               body |-> Some("{\"recheck_now\":"
                                 \o (IF args.recheck_now = None THEN "false"
                                     ELSE args.recheck_now[1])
                                 \o "}")],
              [op |-> "get", method |-> "GET", path |-> "status", body |-> None]>>
      [] tool = "rewrites_update" ->
            <<[op |-> "post", method |-> "POST", path |-> "rewrite/delete",
               body |-> Some(rewriteEntry(args.domain, args.answer))],
              [op |-> "post", method |-> "POST", path |-> "rewrite/add",
               body |-> Some(rewriteEntry(orElse(args.new_domain, args.domain),
                                          orElse(args.new_answer, args.answer)))]>>
      [] tool = "dhcp_update_static_lease" ->
            <<[op |-> "post", method |-> "POST", path |-> "dhcp/remove_static_lease",
               body |-> Some(leaseEntry(args.mac, args.ip, args.hostname))],
              [op |-> "post", method |-> "POST", path |-> "dhcp/add_static_lease",
               body |-> Some(leaseEntry(orElse(args.new_mac, args.mac),
                                        orElse(args.new_ip, args.ip),
                                        orElse(args.new_hostname, args.hostname)))]>>
      [] OTHER ->
            <<[op |-> toolOp(tool), method |-> toolMethod(tool),
               path |-> toolPath(tool, args), body |-> toolBody(tool, args)]>>

toolSuccessText(tool, args) ==
    CASE tool = "stats_reset" -> "Statistics reset."
      [] tool = "rewrites_update" -> "Rewrite updated."
      [] tool = "global_set_protection" ->
            IF args.enabled = "true" THEN "DNS protection enabled."
            ELSE IF args.duration # None /\ args.duration[1] > 0
            THEN "DNS protection disabled for " \o ToString(args.duration[1])
                     \o " seconds."
            ELSE "DNS protection disabled."
      [] tool = "dhcp_update_static_lease" -> "Static lease updated."
      [] tool = "querylog_clear" -> "Query log cleared."
      [] tool = "dhcp_reset" -> "DHCP configuration reset to defaults."
      [] tool = "dhcp_reset_leases" -> "All DHCP leases cleared."
      [] tool = "clients_delete" -> "Client '" \o args.name \o "' deleted."
      [] tool = "rewrites_delete" -> "Rewrite deleted."
      [] tool = "dhcp_remove_static_lease" -> "Static lease removed."
      [] tool = "filtering_remove_url" -> "Filter removed."

\* a guard that asks only for the confirm argument to be present
guardBlocks_presentOnly(tool, args, cfg) ==
    tool \in GuardedTools /\ cfg.confirmDestructive /\ args.confirm = "absent"

\* if (config.confirmDestructive && !args.confirm) return <prompt>
guardBlocks(tool, args, cfg) ==
    tool \in GuardedTools /\ cfg.confirmDestructive /\ args.confirm # "true"

\* a handler that throws the prompt instead of returning it
handlerStart_throw(tool, args, cfg) ==
    IF guardBlocks(tool, args, cfg)
    THEN [awaits |-> FALSE, outcome |-> ThrowError(CONFIRM_PROMPT)]
    ELSE [awaits |-> TRUE, outcome |-> Resolve("")]

\* the handler up to its first await: it returns the prompt, or it calls
\* the client method toolOp on toolPath (with toolBody) and waits
handlerStart(tool, args, cfg) ==
    IF guardBlocks(tool, args, cfg)
    THEN [awaits |-> FALSE, outcome |-> Resolve(CONFIRM_PROMPT)]
    ELSE [awaits |-> TRUE, outcome |-> Resolve("")]

\* the handler after its await client.post(...) settled
handlerAfterPost(tool, args, outcome) ==
    IF outcome.threw
    THEN ThrowError(outcome.error.message)
    ELSE Resolve(toolSuccessText(tool, args))

\* data.enable of a value client.get returned
jsMember(value, key) ==
    IF value.type # "object" THEN jsUndefined
    ELSE IF value.v = "{" \o jsonString(key) \o ":true}" THEN jsBoolean("true")
    ELSE IF value.v = "{" \o jsonString(key) \o ":false}" THEN jsBoolean("false")
    ELSE jsUndefined

\* the truthiness of a value in a condition
jsTruthy(value) ==
    CASE value.type = "boolean" -> value.v = "true"
      [] value.type = "string" -> value.v # ""
      [] value.type = "number" -> \E i \in 1..Len(value.v) : SubSeq(value.v, i, i) # "0"
      [] value.type = "object" -> TRUE
      [] OTHER -> FALSE

\* the handler of a read tool after its await client.get(...) or
\* client.getRaw(...) settled
handlerAfterGet(tool, args, outcome) ==
    IF outcome.threw THEN ThrowError(outcome.error.message)
    ELSE IF tool \in {"mobile_config_get_doh", "mobile_config_get_dot"}
    THEN Resolve(outcome.value.v)
    ELSE IF outcome.value.type \in {"null", "undefined"}
    THEN ThrowError("Cannot read properties of " \o outcome.value.type
                        \o " (reading 'enable')")
    ELSE Resolve("Parental Filtering: "
                     \o (IF jsTruthy(jsMember(outcome.value, "enable"))
                         THEN "enabled" ELSE "disabled"))

\* what the client method the handler awaits ends with
toolOutcome(call, resp, cfg) ==
    CASE call.op = "get" -> clientGet(call.path, resp, cfg)
      [] call.op = "getRaw" -> clientGetRaw(call.path, resp, cfg)
      [] OTHER -> clientPost(call.path, resp, cfg)

\* a handler that goes on to its next client call when one has thrown
handlerSettle_goOn(tool, args, k, resp, cfg) ==
    LET call == toolCalls(tool, args)[k]
        outcome == toolOutcome(call, resp, cfg)
    IN  IF k < Len(toolCalls(tool, args))
        THEN [awaits |-> TRUE, returned |-> ~outcome.threw, outcome |-> Resolve("")]
        ELSE [awaits |-> FALSE, returned |-> ~outcome.threw,
              outcome |-> IF call.op = "post"
                          THEN handlerAfterPost(tool, args, outcome)
                          ELSE handlerAfterGet(tool, args, outcome)]

\* a handler that catches what its second client call throws and reports
\* success
handlerSettle_caught(tool, args, k, resp, cfg) ==
    LET call == toolCalls(tool, args)[k]
        outcome == toolOutcome(call, resp, cfg)
    IN  IF ~outcome.threw /\ k < Len(toolCalls(tool, args))
        THEN [awaits |-> TRUE, returned |-> TRUE, outcome |-> Resolve("")]
        ELSE [awaits |-> FALSE, returned |-> ~outcome.threw,
              outcome |-> IF k = 2 THEN Resolve(toolSuccessText(tool, args))
                          ELSE IF call.op = "post"
                          THEN handlerAfterPost(tool, args, outcome)
                          ELSE handlerAfterGet(tool, args, outcome)]

\* the handler from its k-th await to its next await, its return or its
\* throw: a client call that throws ends the handler, there is no catch.
\* returned tells whether the awaited client call returned
handlerSettle(tool, args, k, resp, cfg) ==
    LET call == toolCalls(tool, args)[k]
        after(outcome) ==
            IF ~outcome.threw /\ k < Len(toolCalls(tool, args))
            THEN [awaits |-> TRUE, returned |-> TRUE, outcome |-> Resolve("")]
            ELSE [awaits |-> FALSE, returned |-> ~outcome.threw,
                  outcome |-> IF call.op = "post"
                              THEN handlerAfterPost(tool, args, outcome)
                              ELSE handlerAfterGet(tool, args, outcome)]
    IN  after(toolOutcome(call, resp, cfg))

\* what the appliance holds once it has carried out a request
remoteAfter(rem, call) ==
    CASE call.path = "rewrite/delete" -> [rem EXCEPT !.rewrites = @ \ {call.body[1]}]
      [] call.path = "rewrite/add" -> [rem EXCEPT !.rewrites = @ \cup {call.body[1]}]
      [] call.path = "dhcp/remove_static_lease" ->
            [rem EXCEPT !.leases = @ \ {call.body[1]}]
      [] call.path = "dhcp/add_static_lease" ->
            [rem EXCEPT !.leases = @ \cup {call.body[1]}]
      [] OTHER -> rem

\* what registerTool adds to a server for the i-th descriptor of the catalog
registeredBy(i, cfg) == registerTool(<<>>, Catalog[i], cfg).server

\* registerAllTools(server, client, config) on a new server: registerTool on
\* every descriptor of the catalog in order, so that each registered name
\* holds what the last accepted descriptor of that name handed over
registerAllTools(cfg) ==
    [n \in UNION {DOMAIN registeredBy(i, cfg) : i \in 1..Len(Catalog)} |->
        registeredBy(CHOOSE i \in 1..Len(Catalog) :
                        /\ n \in DOMAIN registeredBy(i, cfg)
                        /\ \A j \in (i + 1)..Len(Catalog) :
                              n \notin DOMAIN registeredBy(j, cfg),
                     cfg)[n]]

\* registerAllTools(server, client, config) on the configuration loadConfig
\* returned
ConfigRegister ==
    /\ loaded # None
    /\ ~loaded[1].threw
    /\ gateLog = <<>>
    /\ registered' = registerAllTools(config)
    /\ gateLog' = registerTool(<<>>, Catalog[Len(Catalog)], config).log
    /\ UNCHANGED <<config, env, sanVars, gateArg, gateRet, wrapCall, failures,
                   clientVars, mainVars>>

ConfigNext == LoadConfig \/ ConfigRegister

SpecConfig == ConfigInit /\ [][ConfigNext]_vars

(***************************************************************************)
(* index.ts: main(), then the transport dispatching tool calls             *)
(***************************************************************************)
MainEnvs ==
    [ADGUARD_URL : {Some("http://adguard.local/")},
     ADGUARD_USERNAME : {Some("admin")},
     ADGUARD_PASSWORD : {None, Some("s3cret")},
     ADGUARD_ACCESS_TIER : {None, Some("read-only"), Some("s3cret")},
     ADGUARD_CATEGORIES : {None, Some("stats,clients")},
     ADGUARD_CONFIRM_DESTRUCTIVE : {None, Some("true")},
     DEBUG : {None}]

StartupResponses(cfg) ==
    {HttpResponse(200, "OK", Some("application/json"), None, "true"),
     HttpResponse(401, "Unauthorized", None, None, ""),
     HttpResponse(500, "denied for " \o cfg.password, None, None, ""),
     FetchFailure("fetch failed")}

ToolResponses(cfg) ==
    {HttpResponse(200, "OK", None, Some("0"), ""),
     HttpResponse(200, "OK", Some("application/json"), None, "{\"enable\":true}"),
     HttpResponse(200, "OK", Some("application/json"), None, "null"),
     HttpResponse(500, "denied for " \o cfg.password, None, None, ""),
     FetchFailure("fetch failed")}

\* a main() that logs the configuration error and goes on to the client
mainLoad_noExit(e) ==
    IF loadConfig(e).threw
    THEN [pc |-> "validating", exitCode |-> None, stderr |-> <<loadConfig(e).message>>,
          steps |-> <<"loadConfig", "newClient">>,
          config |-> NoConfig, client |-> newClient(NoConfig)]
    ELSE [pc |-> "validating", exitCode |-> None, stderr |-> <<>>,
          steps |-> <<"loadConfig", "newClient">>,
          config |-> loadConfig(e).value, client |-> newClient(loadConfig(e).value)]

\* main() up to its first await: loadConfig() in its try block, whose catch
\* logs the message and exits with 1, then new AdGuardClient(config)
mainLoad(e) ==
    IF loadConfig(e).threw
    THEN [pc |-> "exited", exitCode |-> Some(1), stderr |-> <<loadConfig(e).message>>,
          steps |-> <<"loadConfig">>,
          config |-> NoConfig, client |-> NoClient]
    ELSE [pc |-> "validating", exitCode |-> None, stderr |-> <<>>,
          steps |-> <<"loadConfig", "newClient">>,
          config |-> loadConfig(e).value, client |-> newClient(loadConfig(e).value)]

\* a main() that logs the connection error and goes on to serve
mainConnect_noExit(outcome, cfg) ==
    [pc |-> "serving", exitCode |-> None,
     stderr |-> IF outcome.threw THEN <<outcome.error.message>> ELSE <<>>,
     steps |-> <<"validateConnection", "createServer", "registerAllTools",
                 "startServer">>,
     registered |-> registerAllTools(cfg)]

\* main() after await client.validateConnection(): its catch logs the
\* message and exits with 1; otherwise createServer, registerAllTools,
\* startServer
mainConnect(outcome, cfg) ==
    IF outcome.threw
    THEN [pc |-> "exited", exitCode |-> Some(1), stderr |-> <<outcome.error.message>>,
          steps |-> <<"validateConnection">>, registered |-> <<>>]
    ELSE [pc |-> "serving", exitCode |-> None, stderr |-> <<>>,
          steps |-> <<"validateConnection", "createServer", "registerAllTools",
                      "startServer">>,
          registered |-> registerAllTools(cfg)]

\* the process has been started with its environment
Init ==
    /\ env \in MainEnvs
    /\ loaded = None
    /\ config = NoConfig
    /\ SanIdle
    /\ GateIdle
    /\ ClientIdle
    /\ proc = [pc |-> "start", exitCode |-> None, stderr |-> <<>>, steps |-> <<>>]
    /\ calls = [c \in CallIds |-> IdleCall]
    /\ remote = NoRemote

\* config = loadConfig() and client = new AdGuardClient(config), or the exit
StartupLoad ==
    /\ proc.pc = "start"
    /\ loaded' = Some(loadConfig(env))
    /\ config' = mainLoad(env).config
    /\ client' = mainLoad(env).client
    /\ proc' = [pc |-> mainLoad(env).pc, exitCode |-> mainLoad(env).exitCode,
                stderr |-> proc.stderr \o mainLoad(env).stderr,
                steps |-> proc.steps \o mainLoad(env).steps]
    /\ UNCHANGED <<sanVars, gateVars, clientCall, requestLog, calls, env, remote>>

\* client.validateConnection() sends its request and fetch settles with resp
StartupConnect(resp) ==
    LET outcome == validateConnection(resp, config)
        m == mainConnect(outcome, config)
    IN  /\ requestLog' = requestLog \o fetchRequests(client, "GET", "status", None)
        /\ clientCall' = Some([op |-> "validateConnection", method |-> "GET",
                               path |-> "status", resp |-> resp, outcome |-> outcome])
        /\ registered' = m.registered
        /\ gateLog' = IF m.pc = "serving"
                      THEN registerTool(<<>>, Catalog[Len(Catalog)], config).log
                      ELSE gateLog
        /\ proc' = [pc |-> m.pc, exitCode |-> m.exitCode,
                    stderr |-> proc.stderr \o m.stderr,
                    steps |-> proc.steps \o m.steps]
        /\ UNCHANGED <<config, sanVars, gateArg, gateRet, wrapCall, failures,
                       client, calls, env, loaded, remote>>

\* await client.validateConnection() succeeds: createServer, registerAllTools,
\* startServer
StartupOk(resp) ==
    /\ proc.pc = "validating"
    /\ mainConnect(validateConnection(resp, config), config).pc = "serving"
    /\ StartupConnect(resp)

\* await client.validateConnection() throws: logger.error, process.exit(1)
StartupFail(resp) ==
    /\ proc.pc = "validating"
    /\ mainConnect(validateConnection(resp, config), config).pc = "exited"
    /\ StartupConnect(resp)

\* a transport that dispatches a call only when no other call is in flight
InvokeTool_exclusive(c, tool, args) ==
    /\ proc.pc = "serving"
    /\ calls[c].pc = "idle"
    /\ \A d \in DOMAIN calls : calls[d].pc # "awaiting"
    /\ tool \in DOMAIN registered
    /\ IF ~handlerStart(tool, args, config).awaits
       THEN /\ calls' = [calls EXCEPT ![c] =
                   [pc |-> "done", tool |-> tool, args |-> args, invoked |-> 1,
                    step |-> 0, returned |-> 0, sent |-> <<>>,
                    result |-> wrapHandler(handlerStart(tool, args, config).outcome,
                                           config)]]
            /\ requestLog' = requestLog
       ELSE LET call == toolCalls(tool, args)[1]
                reqs == fetchRequests(client, call.method, call.path, call.body)
            IN  /\ calls' = [calls EXCEPT ![c] =
                       [pc |-> "awaiting", tool |-> tool, args |-> args, invoked |-> 1,
                        step |-> 1, returned |-> 0, sent |-> reqs,
                        result |-> NoResult]]
                /\ requestLog' = requestLog \o reqs
    /\ UNCHANGED <<config, sanVars, gateVars, client, clientCall, proc, env, loaded,
                   remote>>

\* the transport calls a registered tool's wrapped handler, which runs to
\* its first await or to its return
InvokeTool(c, tool, args) ==
    /\ proc.pc = "serving"
    /\ calls[c].pc = "idle"
    /\ tool \in DOMAIN registered
    /\ IF ~handlerStart(tool, args, config).awaits
       THEN /\ calls' = [calls EXCEPT ![c] =
                   [pc |-> "done", tool |-> tool, args |-> args, invoked |-> 1,
                    step |-> 0, returned |-> 0, sent |-> <<>>,
                    result |-> wrapHandler(handlerStart(tool, args, config).outcome,
                                           config)]]
            /\ requestLog' = requestLog
       ELSE LET call == toolCalls(tool, args)[1]
                reqs == fetchRequests(client, call.method, call.path, call.body)
            IN  /\ calls' = [calls EXCEPT ![c] =
                       [pc |-> "awaiting", tool |-> tool, args |-> args, invoked |-> 1,
                        step |-> 1, returned |-> 0, sent |-> reqs,
                        result |-> NoResult]]
                /\ requestLog' = requestLog \o reqs
    /\ UNCHANGED <<config, sanVars, gateVars, client, clientCall, proc, env, loaded,
                   remote>>

\* fetch settles for a waiting call: the appliance has carried out the
\* request if it answers with success (a request that fetch rejects is taken
\* not to have reached it); the client method returns or throws;
\* the handler makes its next client call, or returns or throws, and then
\* the wrapper builds the result
SettleCall(c, resp) ==
    LET tool == calls[c].tool
        args == calls[c].args
        k == calls[c].step
        next == toolCalls(tool, args)[k + 1]
        reqs == fetchRequests(client, next.method, next.path, next.body)
    IN  /\ proc.pc = "serving"
        /\ calls[c].pc = "awaiting"
        /\ remote' = IF responseOk(resp)
                     THEN remoteAfter(remote, toolCalls(tool, args)[k])
                     ELSE remote
        /\ \E settled \in {handlerSettle(tool, args, k, resp, config)} :
              IF settled.awaits
              THEN /\ calls' = [calls EXCEPT ![c] =
                          [@ EXCEPT !.step = k + 1,
                                    !.returned = IF settled.returned THEN @ + 1 ELSE @,
                                    !.sent = @ \o reqs]]
                   /\ requestLog' = requestLog \o reqs
              ELSE /\ calls' = [calls EXCEPT ![c] =
                          [@ EXCEPT !.pc = "done",
                                    !.returned = IF settled.returned THEN @ + 1 ELSE @,
                                    !.result = wrapHandler(settled.outcome, config)]]
                   /\ requestLog' = requestLog
        /\ UNCHANGED <<config, sanVars, gateVars, client, clientCall, proc, env,
                       loaded>>

Next ==
    \/ StartupLoad
    \/ \E r \in StartupResponses(config) : StartupOk(r)
    \/ \E r \in StartupResponses(config) : StartupFail(r)
    \/ \E c \in CallIds, t \in HandlerTools : \E a \in ToolArgs(t) : InvokeTool(c, t, a)
    \/ \E c \in CallIds, r \in ToolResponses(config) : SettleCall(c, r)

Spec == Init /\ [][Next]_vars

(***************************************************************************)
(* Concurrent update calls: rewrites_update and dhcp_update_static_lease,  *)
(* dispatched side by side against an appliance that holds the entry       *)
(***************************************************************************)
MaxUpdates == 2      \* update calls in flight side by side

UpdateIds == 1..MaxUpdates

UpdateTools == {"rewrites_update", "dhcp_update_static_lease"}

UpdateEnv ==
    [ADGUARD_URL |-> Some("http://adguard.local"), ADGUARD_USERNAME |-> Some("admin"),
     ADGUARD_PASSWORD |-> Some("s3cret"), ADGUARD_ACCESS_TIER |-> None,
     ADGUARD_CATEGORIES |-> None, ADGUARD_CONFIRM_DESTRUCTIVE |-> None,
     DEBUG |-> None]

\* the rewrite rule and the static lease the update calls name
OriginalRewrite == rewriteEntry("a.example", "10.0.0.1")
OriginalLease == leaseEntry("aa:bb", "10.0.0.2", "tv")

UpdateResponses ==
    {HttpResponse(200, "OK", None, Some("0"), ""),
     HttpResponse(500, "Internal Server Error", None, None, "")}

UpdateInit ==
    /\ env = UpdateEnv
    /\ loaded = None
    /\ config = NoConfig
    /\ SanIdle
    /\ GateIdle
    /\ ClientIdle
    /\ proc = [pc |-> "start", exitCode |-> None, stderr |-> <<>>, steps |-> <<>>]
    /\ calls = [c \in UpdateIds |-> IdleCall]
    /\ remote = [rewrites |-> {OriginalRewrite}, leases |-> {OriginalLease}]

UpdateNext ==
    \/ StartupLoad
    \/ \E r \in StartupResponses(config) : StartupOk(r)
    \/ \E r \in StartupResponses(config) : StartupFail(r)
    \/ \E c \in UpdateIds, t \in UpdateTools : \E a \in ToolArgs(t) : InvokeTool(c, t, a)
    \/ \E c \in UpdateIds, r \in UpdateResponses : SettleCall(c, r)

SpecUpdate == UpdateInit /\ [][UpdateNext]_vars

(***************************************************************************)
(* The server under the read-only tier: every tool it registers can be     *)
(* called, and the requests are followed                                   *)
(***************************************************************************)
MaxReads == 1        \* tool calls dispatched in one run under the read-only tier

ReadIds == 1..MaxReads

ReadEnvs ==
    [ADGUARD_URL : {Some("http://adguard.local")},
     ADGUARD_USERNAME : {Some("admin")},
     ADGUARD_PASSWORD : {Some("s3cret")},
     ADGUARD_ACCESS_TIER : {Some("read-only"), Some("Read-Only")},
     ADGUARD_CATEGORIES : {None, Some("global,dns,tls")},
     ADGUARD_CONFIRM_DESTRUCTIVE : {None},
     DEBUG : {None}]

\* the tools a caller may name: the catalog's read-only tools and the
\* full-tier tools whose handlers are modelled
CallableTools ==
    {Catalog[i].name : i \in {j \in 1..Len(Catalog) : Catalog[j].accessTier = "read-only"}}
        \cup HandlerTools \cup UpdateTools

ReadResponses ==
    {HttpResponse(200, "OK", Some("application/json"), None, "{\"enable\":true}"),
     HttpResponse(500, "Internal Server Error", None, None, "")}

\* the handlers whose text after a successful last client call is modelled;
\* the other handlers hand the data to a formatter and make no client call
\* after it
FormattedTools ==
    HandlerTools \cup UpdateTools \cup {"mobile_config_get_dot"}

ReadInit ==
    /\ env \in ReadEnvs
    /\ loaded = None
    /\ config = NoConfig
    /\ SanIdle
    /\ GateIdle
    /\ ClientIdle
    /\ proc = [pc |-> "start", exitCode |-> None, stderr |-> <<>>, steps |-> <<>>]
    /\ calls = [c \in ReadIds |-> IdleCall]
    /\ remote = NoRemote

\* fetch settles for a waiting call, for the responses after which the
\* handler's course is modelled: a failure, an answer the handler follows
\* with its next client call, or the last answer of a formatted tool
ReadSettle(c, resp) ==
    /\ calls[c].pc = "awaiting"
    /\ \/ ~responseOk(resp)
       \/ calls[c].step < Len(toolCalls(calls[c].tool, calls[c].args))
       \/ calls[c].tool \in FormattedTools
    /\ SettleCall(c, resp)

ReadNext ==
    \/ StartupLoad
    \/ \E r \in StartupResponses(config) : StartupOk(r)
    \/ \E r \in StartupResponses(config) : StartupFail(r)
    \/ \E c \in ReadIds, t \in CallableTools : \E a \in ToolArgs(t) : InvokeTool(c, t, a)
    \/ \E c \in ReadIds, r \in ReadResponses : ReadSettle(c, r)

SpecReadOnly == ReadInit /\ [][ReadNext]_vars

\* C2: registerTool returns false exactly when the tier gate or the category
\* gate rejects the descriptor; otherwise it returns true and the descriptor
\* is registered. A read-only descriptor is never rejected by the tier gate.
C2_GateDecision ==
    gateArg # None =>
        LET D == gateArg[1]
            r == gateRet[1]
            tierRejects == config.accessTier = "read-only" /\ D.accessTier = "full"
            catRejects ==
                /\ config.categories # None
                /\ D.category \notin {config.categories[1][i] :
                                         i \in 1..Len(config.categories[1])}
        IN  /\ (r = FALSE) <=> (tierRejects \/ catRejects)
            /\ (r = TRUE) <=> ~(tierRejects \/ catRejects)
            /\ r = TRUE => D.name \in DOMAIN registered
            /\ r = FALSE => D.name \notin DOMAIN registered
            /\ (D.accessTier = "read-only" /\ r = FALSE) => catRejects

\* a descriptor rejected by the category gate alone, and one accepted
C2_Witness ==
    /\ gateArg # None
    /\ gateRet = Some(FALSE)
    /\ gateArg[1].category = "tls"
    /\ gateArg[1].accessTier = "read-only"
    /\ config.accessTier = "read-only"
    /\ config.categories = Some(<<"dns", "stats">>)
    /\ \E n \in DOMAIN registered : registered[n].category = "dns"

\* C3: the wrapped handler never throws; a resolved string becomes a plain
\* text result, a thrown Error an error result with the sanitized message, a
\* thrown non-Error an error result with the fixed text; earlier failures
\* do not keep the next call from being dispatched.
C3_WrapperNeverThrows ==
    /\ transportUp
    /\ wrapCall # None =>
          LET o == wrapCall[1].outcome
              r == wrapCall[1].result
          IN  /\ ~r.threw
              /\ o.kind = "resolve" => (r.text = o.text /\ ~r.isError)
              /\ o.kind = "throwError" =>
                    (r.isError /\ r.text = sanitizeMessage(o.text, config))
              /\ o.kind = "throwOther" =>
                    (r.isError /\ r.text = "An unknown error occurred")

\* a call that resolves normally after an earlier call has failed
C3_Witness ==
    /\ failures >= 1
    /\ wrapCall # None
    /\ wrapCall[1].outcome.kind = "resolve"
    /\ wrapCall[1].result = [threw |-> FALSE, text |-> "ok", isError |-> FALSE]

\* the number of requests the tool calls have sent
RECURSIVE sentUpTo(_)
sentUpTo(c) == IF c = 0 THEN 0 ELSE Len(calls[c].sent) + sentUpTo(c - 1)

\* the URL of the reset endpoint of each guarded tool
resetUrl(tool) ==
    config.url \o "/control/" \o
        (CASE tool = "stats_reset" -> "stats_reset"
           [] tool = "querylog_clear" -> "querylog_clear"
           [] tool = "dhcp_reset" -> "dhcp/reset"
           [] tool = "dhcp_reset_leases" -> "dhcp/reset_leases"
           [] OTHER -> "")

\* C4: stats_reset, querylog_clear, dhcp_reset and dhcp_reset_leases return
\* the confirmation prompt and send nothing when confirmDestructive is set
\* and confirm is absent or false; otherwise they send exactly one POST to
\* their reset endpoint.
C4_GuardedResets ==
    /\ proc.pc = "serving" => Len(requestLog) = 1 + sentUpTo(MaxCalls)
    /\ \A c \in CallIds :
          (calls[c].pc # "idle"
           /\ calls[c].tool \in {"stats_reset", "querylog_clear", "dhcp_reset",
                                 "dhcp_reset_leases"})
          => IF config.confirmDestructive /\ calls[c].args.confirm \in {"absent", "false"}
             THEN /\ calls[c].pc = "done"
                  /\ calls[c].sent = <<>>
                  /\ calls[c].result.text =
                        "This is a destructive operation that cannot be undone. Set confirm: true to proceed."
             ELSE /\ Len(calls[c].sent) = 1
                  /\ calls[c].sent[1].method = "POST"
                  /\ calls[c].sent[1].url = resetUrl(calls[c].tool)
                  /\ calls[c].pc = "done" =>
                        calls[c].result.text #
                            "This is a destructive operation that cannot be undone. Set confirm: true to proceed."

\* dhcp_reset called with confirm: false under confirmDestructive
C4_Witness ==
    \E c \in CallIds :
        /\ calls[c].pc = "done"
        /\ calls[c].tool = "dhcp_reset"
        /\ calls[c].args.confirm = "false"
        /\ config.confirmDestructive
        /\ calls[c].sent = <<>>
        /\ requestLog = <<HttpRequest(client, "GET", "status", None)>>

\* C5: with confirmDestructive set, every reset and delete tool called
\* without confirm: true sends no request to the appliance.
C5_Original ==
    \A c \in CallIds :
        (/\ calls[c].pc # "idle"
         /\ calls[c].tool \in {"stats_reset", "querylog_clear", "dhcp_reset",
                               "dhcp_reset_leases", "clients_delete", "rewrites_delete",
                               "dhcp_remove_static_lease", "filtering_remove_url"}
         /\ config.confirmDestructive
         /\ calls[c].args.confirm # "true")
        => calls[c].sent = <<>>

\* a guarded tool was called under confirmDestructive without confirm: true
missingConfirmation(c) ==
    /\ calls[c].pc = "done"
    /\ calls[c].tool \in {"stats_reset", "querylog_clear", "dhcp_reset", "dhcp_reset_leases"}
    /\ config.confirmDestructive
    /\ calls[c].args.confirm # "true"

\* C6 as stated: a missing confirmation gives an error-flagged result.
C6_Original ==
    \A c \in CallIds : missingConfirmation(c) => calls[c].result.isError

\* C6 amended: a missing confirmation gives the confirmation prompt as an
\* ordinary text result, without the error flag and without an exception.
C6_PromptIsPlainResult ==
    \A c \in CallIds :
        missingConfirmation(c) =>
            /\ ~calls[c].result.isError
            /\ ~calls[c].result.threw
            /\ calls[c].result.text = CONFIRM_PROMPT

\* stats_reset called with no confirm argument under confirmDestructive
C6_Witness ==
    \E c \in CallIds :
        /\ missingConfirmation(c)
        /\ calls[c].tool = "stats_reset"
        /\ calls[c].args.confirm = "absent"
        /\ calls[c].result = [threw |-> FALSE, text |-> CONFIRM_PROMPT, isError |-> FALSE]

\* C7: validateConnection against a 401 or 403 response fails with exactly
\* the fixed authentication message, whatever the credentials and the
\* status text, and with the response status as statusCode.
C7_AuthFailureMessage ==
    (/\ clientCall # None
     /\ clientCall[1].op = "validateConnection"
     /\ clientCall[1].resp.kind = "response"
     /\ clientCall[1].resp.status \in {401, 403})
    => /\ clientCall[1].outcome.threw
       /\ clientCall[1].outcome.error.message =
              "Authentication failed -- check ADGUARD_USERNAME and ADGUARD_PASSWORD"
       /\ clientCall[1].outcome.error.statusCode = Some(clientCall[1].resp.status)

\* a 403 whose status text carries the password
C7_Witness ==
    /\ clientCall # None
    /\ clientCall[1].op = "validateConnection"
    /\ clientCall[1].resp.status = 403
    /\ includes(clientCall[1].resp.statusText, config.password)
    /\ clientCall[1].outcome.threw

\* the connection check ended on a failed status other than 401/403
validateFailedStatus ==
    /\ clientCall # None
    /\ clientCall[1].op = "validateConnection"
    /\ clientCall[1].resp.kind = "response"
    /\ ~(clientCall[1].resp.status >= 200 /\ clientCall[1].resp.status <= 299)
    /\ clientCall[1].resp.status \notin {401, 403}

\* the connection check ended on a transport failure
validateTransportFailure ==
    /\ clientCall # None
    /\ clientCall[1].op = "validateConnection"
    /\ clientCall[1].resp.kind = "failure"

\* C8 as stated: every failed status other than 401/403 and every transport
\* failure gives a connectivity error whose message names the base URL.
C8_Original ==
    (validateFailedStatus \/ validateTransportFailure)
    => /\ clientCall[1].outcome.threw
       /\ includes(clientCall[1].outcome.error.message, config.url)

\* C8 amended: a failed status other than 401/403 gives the sanitized
\* "Connection check failed: <status> <statusText>" with the status code and
\* without the base URL; a transport failure gives the sanitized "Cannot
\* connect to AdGuard Home at <url>: <cause>" with no status code, which
\* names the URL when the sanitizer finds nothing to redact.
C8_ConnectivityErrors ==
    /\ validateFailedStatus =>
          LET r == clientCall[1].resp
              raw == "Connection check failed: " \o ToString(r.status) \o " " \o r.statusText
          IN  /\ clientCall[1].outcome.threw
              /\ clientCall[1].outcome.error.message = sanitizeMessage(raw, config)
              /\ clientCall[1].outcome.error.statusCode = Some(r.status)
              /\ ~containsCredential(raw, config) =>
                    ~includes(clientCall[1].outcome.error.message, config.url)
    /\ validateTransportFailure =>
          LET raw == "Cannot connect to AdGuard Home at " \o config.url \o ": "
                         \o clientCall[1].resp.errMessage
          IN  /\ clientCall[1].outcome.threw
              /\ clientCall[1].outcome.error.message = sanitizeMessage(raw, config)
              /\ clientCall[1].outcome.error.statusCode = None
              /\ ~containsCredential(raw, config) =>
                    includes(clientCall[1].outcome.error.message, config.url)

\* a 500 whose error does not name the base URL
C8_Witness ==
    /\ validateFailedStatus
    /\ clientCall[1].resp.status = 500
    /\ clientCall[1].outcome.error.message =
           "Connection check failed: 500 Internal Server Error"

\* get, post or getRaw ended on a failed status
requestFailedStatus ==
    /\ clientCall # None
    /\ clientCall[1].op \in {"get", "post", "getRaw"}
    /\ clientCall[1].resp.kind = "response"
    /\ ~(clientCall[1].resp.status >= 200 /\ clientCall[1].resp.status <= 299)

\* get, post or getRaw ended on a transport failure or timeout
requestTransportFailure ==
    /\ clientCall # None
    /\ clientCall[1].op \in {"get", "post", "getRaw"}
    /\ clientCall[1].resp.kind = "failure"

\* C9: for get, post and getRaw a failed status S gives an AdGuardError whose
\* message is "<METHOD> <path> failed: <S> <statusText>" as the sanitizer
\* leaves it and whose statusCode is S; a transport failure or timeout gives
\* the sanitized cause with no statusCode.
C9_RequestErrors ==
    /\ requestFailedStatus =>
          LET c == clientCall[1]
              raw == c.method \o " " \o c.path \o " failed: " \o ToString(c.resp.status)
                         \o " " \o c.resp.statusText
          IN  /\ c.outcome.threw
              /\ c.outcome.error.name = "AdGuardError"
              /\ c.outcome.error.message = sanitizeMessage(raw, config)
              /\ ~containsCredential(raw, config) => c.outcome.error.message = raw
              /\ c.outcome.error.statusCode = Some(c.resp.status)
    /\ requestTransportFailure =>
          LET c == clientCall[1]
          IN  /\ c.outcome.threw
              /\ c.outcome.error.name = "AdGuardError"
              /\ c.outcome.error.message = sanitizeMessage(c.resp.errMessage, config)
              /\ c.outcome.error.statusCode = None

\* get("status") against a 500 whose reason phrase embeds the password
C9_Witness ==
    /\ requestFailedStatus
    /\ clientCall[1].op = "get"
    /\ clientCall[1].path = "status"
    /\ clientCall[1].resp.status = 500
    /\ clientCall[1].outcome.error.message = "GET status failed: 500 denied for [REDACTED]"
    /\ clientCall[1].outcome.error.statusCode = Some(500)

\* C10: for get and post a 2xx response that declares a JSON content type
\* and whose body is not JSON yields the raw body text, not a failure.
C10_Original ==
    (/\ clientCall # None
     /\ clientCall[1].op \in {"get", "post"}
     /\ clientCall[1].resp.kind = "response"
     /\ clientCall[1].resp.status >= 200 /\ clientCall[1].resp.status <= 299
     /\ clientCall[1].resp.contentType = Some("application/json; charset=utf-8")
     /\ clientCall[1].resp.contentLength = None
     /\ clientCall[1].resp.body = "not json")
    => /\ ~clientCall[1].outcome.threw
       /\ clientCall[1].outcome.value = [type |-> "string", v |-> "not json"]

\* a settled call of get, post or getRaw on a 2xx response with a body
successWithBody(ops) ==
    /\ clientCall # None
    /\ clientCall[1].op \in ops
    /\ clientCall[1].resp.kind = "response"
    /\ responseOk(clientCall[1].resp)
    /\ clientCall[1].resp.body # ""

declaresJson(resp) == includes(headerOr(resp.contentType, ""), "json")

\* what the content type selects: the decoded body of a JSON text under a
\* content type containing "json", the body text under any other
decodedByType(resp) ==
    IF declaresJson(resp) THEN jsonParse(resp.body) ELSE Returned(jsString(resp.body))

\* C11 as stated: get and post on a 2xx response with a non-empty body
\* return the JSON-decoded body when the content type contains "json" (for
\* a body that is a JSON text) and the body text otherwise; getRaw returns
\* the body text whatever the content type.
C11_Original ==
    /\ (successWithBody({"get", "post"}) /\ ~decodedByType(clientCall[1].resp).threw)
       => clientCall[1].outcome = decodedByType(clientCall[1].resp)
    /\ successWithBody({"getRaw"})
       => clientCall[1].outcome = Returned(jsString(clientCall[1].resp.body))

\* C11: the same, for get on every such response and for post on every such
\* response that does not carry content-length "0" (for which post returns
\* the empty string without reading the body); getRaw returns the body text
\* whatever the content type.
C11_ResultByContentType ==
    /\ (/\ successWithBody({"get", "post"})
        /\ ~decodedByType(clientCall[1].resp).threw
        /\ (clientCall[1].op = "post" => clientCall[1].resp.contentLength # Some("0")))
       => clientCall[1].outcome = decodedByType(clientCall[1].resp)
    /\ (/\ successWithBody({"post"})
        /\ clientCall[1].resp.contentLength = Some("0"))
       => clientCall[1].outcome = Returned(jsString(""))
    /\ successWithBody({"getRaw"})
       => clientCall[1].outcome = Returned(jsString(clientCall[1].resp.body))

C11_Witness ==
    /\ successWithBody({"get"})
    /\ clientCall[1].resp.contentType = Some("application/json; charset=utf-8")
    /\ clientCall[1].resp.body = "\"ok\""
    /\ clientCall[1].outcome = Returned(jsString("ok"))

\* C12: post on a 2xx response with the header content-length "0" returns
\* the empty string whatever the body and the content type; post on a 2xx
\* response with an empty body returns the empty string, the header absent
\* included.
C12_EmptyPostResult ==
    (/\ clientCall # None
     /\ clientCall[1].op = "post"
     /\ clientCall[1].resp.kind = "response"
     /\ responseOk(clientCall[1].resp)
     /\ \/ clientCall[1].resp.contentLength = Some("0")
        \/ clientCall[1].resp.body = "")
    => clientCall[1].outcome = Returned(jsString(""))

C12_Witness ==
    /\ clientCall # None
    /\ clientCall[1].op = "post"
    /\ clientCall[1].resp.contentLength = Some("0")
    /\ clientCall[1].resp.contentType = Some("application/json; charset=utf-8")
    /\ clientCall[1].resp.body = "true"
    /\ clientCall[1].outcome = Returned(jsString(""))

\* C13: sanitizing a sanitized message changes nothing:
\* sanitizeMessage(sanitizeMessage(M, C), C) = sanitizeMessage(M, C).
C13_Idempotent ==
    sanPc = "again" => resanitized = sanitized

\* the environments the claim calls invalid: a required variable unset or
\* empty, a tier text that is neither tier once normalized, a listed
\* category that is no valid tag
missingVariable(e) ==
    \E i \in 1..Len(RequiredVariables) :
        e[RequiredVariables[i]] = None \/ e[RequiredVariables[i]] = Some("")

invalidTier(e) ==
    /\ e.ADGUARD_ACCESS_TIER # None
    /\ e.ADGUARD_ACCESS_TIER # Some("")
    /\ trim(toLowerCase(e.ADGUARD_ACCESS_TIER[1])) \notin AccessTiers

unknownCategory(e) ==
    /\ e.ADGUARD_CATEGORIES # None
    /\ \E i \in 1..Len(split(e.ADGUARD_CATEGORIES[1], ",")) :
          LET c == toLowerCase(trim(split(e.ADGUARD_CATEGORIES[1], ",")[i]))
          IN  c # "" /\ ~arrayIncludes(VALID_CATEGORIES, c)

endsWithSlash(s) == Len(s) > 0 /\ SubSeq(s, Len(s), Len(s)) = "/"

\* C14: a configuration loadConfig returns has a url without trailing slash,
\* a non-empty username and password, an access tier that is read-only or
\* full (full when ADGUARD_ACCESS_TIER is unset) and categories that are
\* null or a list of valid category tags; on an environment with a missing
\* required variable, an invalid tier or an unknown category loadConfig
\* throws instead of returning.
C14_LoadConfigValidates ==
    loaded # None =>
        /\ ~loaded[1].threw =>
              /\ ~endsWithSlash(loaded[1].value.url)
              /\ loaded[1].value.username # ""
              /\ loaded[1].value.password # ""
              /\ loaded[1].value.accessTier \in AccessTiers
              /\ env.ADGUARD_ACCESS_TIER = None => loaded[1].value.accessTier = "full"
              /\ \/ loaded[1].value.categories = None
                 \/ \A i \in 1..Len(loaded[1].value.categories[1]) :
                       arrayIncludes(VALID_CATEGORIES, loaded[1].value.categories[1][i])
        /\ (missingVariable(env) \/ invalidTier(env) \/ unknownCategory(env))
              => loaded[1].threw

C14_Witness ==
    /\ loaded # None
    /\ env.ADGUARD_URL = Some("http://adguard.local//")
    /\ env.ADGUARD_ACCESS_TIER = Some(" Full ")
    /\ env.ADGUARD_CATEGORIES = Some("DNS, stats ,")
    /\ ~loaded[1].threw
    /\ loaded[1].value.url = "http://adguard.local"
    /\ loaded[1].value.accessTier = "full"
    /\ loaded[1].value.categories = Some(<<"dns", "stats">>)

configFailed == loaded # None /\ loaded[1].threw

configLoaded == loaded # None /\ ~loaded[1].threw

\* C15: when loadConfig fails the process exits with code 1 with no client
\* constructed and no request sent; no request precedes a successful
\* configuration load.
C15_NoRequestBeforeConfig ==
    /\ configFailed =>
          /\ proc.pc = "exited"
          /\ proc.exitCode = Some(1)
          /\ proc.steps = <<"loadConfig">>
          /\ client = NoClient
          /\ requestLog = <<>>
    /\ requestLog # <<>> => configLoaded

\* ADGUARD_PASSWORD is not set
C15_Witness ==
    /\ configFailed
    /\ env.ADGUARD_PASSWORD = None
    /\ proc.pc = "exited"
    /\ proc.exitCode = Some(1)
    /\ proc.stderr = <<"Missing required environment variables: ADGUARD_PASSWORD. Set these variables to connect to your AdGuard Home instance.">>
    /\ requestLog = <<>>

\* the steps of main() in the order of index.ts
StartupOrder ==
    <<"loadConfig", "newClient", "validateConnection", "createServer",
      "registerAllTools", "startServer">>

connectionChecked == clientCall # None /\ clientCall[1].op = "validateConnection"

\* C16: main() takes its steps in the order load config, construct client,
\* validate connection, register tools, start transport; when
\* validateConnection fails the process exits with code 1, no tool is
\* registered and the transport is not started; no tool call is dispatched
\* before a successful connection check.
C16_StartupOrder ==
    /\ Len(proc.steps) <= Len(StartupOrder)
    /\ proc.steps = SubSeq(StartupOrder, 1, Len(proc.steps))
    /\ (connectionChecked /\ clientCall[1].outcome.threw) =>
          /\ proc.pc = "exited"
          /\ proc.exitCode = Some(1)
          /\ registered = <<>>
          /\ \A i \in 1..Len(proc.steps) :
                proc.steps[i] \notin {"createServer", "registerAllTools", "startServer"}
    /\ \A c \in CallIds :
          calls[c].pc # "idle" =>
              /\ connectionChecked
              /\ ~clientCall[1].outcome.threw
              /\ proc.steps = StartupOrder

\* the connection check met a 500 response
C16_Witness ==
    /\ connectionChecked
    /\ clientCall[1].resp.status = 500
    /\ clientCall[1].outcome.threw
    /\ proc.pc = "exited"
    /\ proc.exitCode = Some(1)
    /\ proc.steps = <<"loadConfig", "newClient", "validateConnection">>
    /\ registered = <<>>

\* the username and the password the environment configures
configuredCredentials ==
    {env[n][1] : n \in {v \in {"ADGUARD_USERNAME", "ADGUARD_PASSWORD"} : truthy(env[v])}}

\* C17: no error message written on a startup failure path contains the
\* configured username or the configured password.
C17_Original ==
    proc.pc = "exited" =>
        \A i \in 1..Len(proc.stderr) :
            \A cred \in configuredCredentials : ~includes(proc.stderr[i], cred)

\* the handler of call c got as far as its client call
reachedClient(c) ==
    calls[c].pc # "idle" /\ handlerStart(calls[c].tool, calls[c].args, config).awaits

\* C18: nothing is retried. The connection check and every client call of a
\* handler put exactly one request in the log, whether fetch then succeeds
\* or fails; the wrapper runs the handler once per tool call; a call that
\* has ended, in an error or not, sends nothing more.
C18_NoRetry ==
    /\ [](/\ connectionChecked
             => Len(requestLog) = 1 + sentUpTo(MaxCalls)
          /\ ~connectionChecked => requestLog = <<>>
          /\ \A c \in CallIds :
                /\ calls[c].pc # "idle" => calls[c].invoked = 1
                /\ Len(calls[c].sent) = IF reachedClient(c) THEN 1 ELSE 0
                /\ (calls[c].pc = "done" /\ calls[c].result.isError)
                      => Len(calls[c].sent) = 1)
    /\ [][\A c \in CallIds :
             calls[c].pc = "done" =>
                 /\ calls'[c] = calls[c]
                 /\ Len(requestLog') - Len(requestLog)
                       = sentUpTo(MaxCalls)' - sentUpTo(MaxCalls)]_vars

\* parental_get_status met a 500 response: one GET, an error result
C18_Witness ==
    \E c \in CallIds :
        /\ calls[c].pc = "done"
        /\ calls[c].tool = "parental_get_status"
        /\ calls[c].invoked = 1
        /\ calls[c].result.isError
        /\ calls[c].result.text = "GET parental/status failed: 500 denied for [REDACTED]"
        /\ Len(calls[c].sent) = 1
        /\ calls[c].sent[1].method = "GET"
        /\ Len(requestLog) = 2

\* the tool count the README states
ToolCount == 65

\* C19: with access tier full and no category filter registerAllTools
\* registers exactly 65 tools, the names of the catalog are pairwise
\* distinct, and each of the 16 categories has at least one registered tool.
C19_FullCatalog ==
    (proc.pc = "serving" /\ config.accessTier = "full" /\ config.categories = None)
    => /\ Len(Catalog) = ToolCount
       /\ Cardinality(DOMAIN registered) = ToolCount
       /\ \A i, j \in 1..Len(Catalog) : i # j => Catalog[i].name # Catalog[j].name
       /\ Len(VALID_CATEGORIES) = 16
       /\ \A k \in 1..Len(VALID_CATEGORIES) :
             \E n \in DOMAIN registered : registered[n].category = VALID_CATEGORIES[k]

C19_Witness ==
    /\ proc.pc = "serving"
    /\ config.accessTier = "full"
    /\ config.categories = None
    /\ Cardinality(DOMAIN registered) = 65
    /\ "mobile_config_get_dot" \in DOMAIN registered
    /\ registered["mobile_config_get_dot"].category = "mobile_config"

\* the catalog descriptors that pass the tier gate under the configuration
passesTier(D) == ~(config.accessTier = "read-only" /\ D.accessTier = "full")

\* the catalog descriptors that pass the category gate under the configuration
passesCategory(D) ==
    config.categories = None
        \/ \E k \in 1..Len(config.categories[1]) : config.categories[1][k] = D.category

\* C20: after registerAllTools the registered tools are exactly the catalog
\* descriptors that pass both gates: under read-only every registered tool
\* is read-only; under an allowlist every registered tool's category is
\* listed and every catalog tool of a listed category that passes the tier
\* gate is registered.
C20_RegisteredSet ==
    proc.pc = "serving" =>
        /\ DOMAIN registered =
              {Catalog[i].name : i \in {j \in 1..Len(Catalog) :
                                           passesTier(Catalog[j]) /\ passesCategory(Catalog[j])}}
        /\ \A i \in 1..Len(Catalog) :
              Catalog[i].name \in DOMAIN registered =>
                  /\ registered[Catalog[i].name].category = Catalog[i].category
                  /\ registered[Catalog[i].name].accessTier = Catalog[i].accessTier
        /\ config.accessTier = "read-only" =>
              \A n \in DOMAIN registered : registered[n].accessTier = "read-only"
        /\ config.categories # None =>
              /\ \A n \in DOMAIN registered :
                    arrayIncludes(config.categories[1], registered[n].category)
              /\ \A i \in 1..Len(Catalog) :
                    (arrayIncludes(config.categories[1], Catalog[i].category)
                     /\ passesTier(Catalog[i]))
                    => Catalog[i].name \in DOMAIN registered

\* read-only tier with the allowlist stats, clients
C20_Witness ==
    /\ proc.pc = "serving"
    /\ config.accessTier = "read-only"
    /\ config.categories = Some(<<"stats", "clients">>)
    /\ DOMAIN registered = {"stats_get", "stats_get_config", "clients_get", "clients_search"}

\* the requests a call's handler has handed to fetch, as the code builds them
ownRequests(c) ==
    [i \in 1..calls[c].step |->
        LET call == toolCalls(calls[c].tool, calls[c].args)[i]
        IN  HttpRequest(client, call.method, call.path, call.body)]

\* an update call whose delete request returned and whose add request threw
addFailed(c) ==
    /\ calls[c].tool \in UpdateTools
    /\ calls[c].pc = "done"
    /\ calls[c].step = 2
    /\ calls[c].returned = 1

\* the entry an update call deletes
deletedEntry(c) == toolCalls(calls[c].tool, calls[c].args)[1].body[1]

\* C21: rewrites_update and dhcp_update_static_lease are not atomic. When
\* the delete request succeeded and the add request failed, the call ends
\* with an error-flagged result, the original entry is gone from the
\* appliance, and the call has issued its delete and its add request and
\* nothing else: no request adds the original entry again.
C21_NotAtomic ==
    \A c \in DOMAIN calls :
        addFailed(c) =>
            /\ calls[c].result.isError
            /\ ~calls[c].result.threw
            /\ deletedEntry(c) \notin (remote.rewrites \cup remote.leases)
            /\ calls[c].sent = ownRequests(c)
            /\ Len(calls[c].sent) = 2
            /\ \A i \in 1..Len(requestLog) :
                  ~(/\ requestLog[i].body = Some(deletedEntry(c))
                    /\ \E t \in UpdateTools : \E a \in ToolArgs(t) :
                          requestLog[i].url
                              = client.baseUrl \o "/" \o toolCalls(t, a)[2].path)

C21_Witness ==
    \E c \in DOMAIN calls :
        /\ addFailed(c)
        /\ calls[c].tool = "rewrites_update"
        /\ OriginalRewrite \notin remote.rewrites
        /\ \E d \in DOMAIN calls : addFailed(d) /\ calls[d].tool = "dhcp_update_static_lease"

\* C22: concurrent tool calls on the same entry are not serialized. While
\* the server is serving, calls in flight never hold back the dispatch of
\* another call, whichever tool and arguments, and a dispatched call has
\* sent its first request at once; a call's second request waits for
\* nothing but the answer to its own first one. Hence every interleaving of
\* the calls' requests that keeps each call's delete-before-add order can
\* happen.
C22_NotSerialized ==
    proc.pc = "serving" =>
        \A c \in DOMAIN calls :
            /\ calls[c].pc = "idle" =>
                  \A t \in UpdateTools : \A a \in ToolArgs(t) : ENABLED InvokeTool(c, t, a)
            /\ calls[c].pc = "awaiting" =>
                  /\ calls[c].step \in {1, 2}
                  /\ calls[c].returned = calls[c].step - 1
                  /\ calls[c].sent = ownRequests(c)

\* after the connection check the log reads delete1, delete2, add1, add2 on
\* the same rewrite rule: both calls have succeeded and the appliance holds
\* both replacement rules
C22_Witness ==
    /\ \A c \in {1, 2} :
          /\ calls[c].tool = "rewrites_update"
          /\ calls[c].pc = "done"
          /\ ~calls[c].result.isError
    /\ calls[1].args.new_answer # calls[2].args.new_answer
    /\ SubSeq(requestLog, 2, Len(requestLog))
          = <<calls[1].sent[1], calls[2].sent[1], calls[1].sent[2], calls[2].sent[2]>>
    /\ remote.rewrites = {rewriteEntry("a.example", "10.0.0.2"),
                          rewriteEntry("a.example", "10.0.0.3")}

\* the records a call's record can turn into when the call runs alone: from
\* its own tool, arguments and progress, the configuration, the client's
\* fields and the response it is given
aloneNext(call) ==
    IF call.pc = "idle"
    THEN UNION {{[pc |-> "awaiting", tool |-> t, args |-> a, invoked |-> 1,
                  step |-> 1, returned |-> 0,
                  sent |-> <<HttpRequest(client, toolCalls(t, a)[1].method,
                                        toolCalls(t, a)[1].path,
                                        toolCalls(t, a)[1].body)>>,
                  result |-> NoResult] : a \in ToolArgs(t)} : t \in UpdateTools}
    ELSE IF call.pc = "awaiting"
    THEN {LET settled == handlerSettle(call.tool, call.args, call.step, r, config)
              next == toolCalls(call.tool, call.args)[call.step + 1]
          IN  IF settled.awaits
              THEN [call EXCEPT !.step = @ + 1,
                                !.returned = IF settled.returned THEN @ + 1 ELSE @,
                                !.sent = @ \o <<HttpRequest(client, next.method,
                                                            next.path, next.body)>>]
              ELSE [call EXCEPT !.pc = "done",
                                !.returned = IF settled.returned THEN @ + 1 ELSE @,
                                !.result = wrapHandler(settled.outcome, config)]
            : r \in UpdateResponses}
    ELSE {}

\* C23: tool calls share no mutable state. Once main() has built them, the
\* configuration and the client's authHeader and baseUrl are never written;
\* a step changes one call's record at most, and what that record turns
\* into (the requests sent, with method, URL, body and Authorization header,
\* and the result) is what the call does alone on the same response,
\* whatever the other calls have done.
C23_NoSharedState ==
    [][/\ proc.pc # "start" => config' = config /\ client' = client
       /\ \A c \in DOMAIN calls :
             calls'[c] # calls[c] =>
                /\ \A d \in DOMAIN calls \ {c} : calls'[d] = calls[d]
                /\ calls'[c] \in aloneNext(calls[c])]_vars

\* two calls are in flight side by side and a third step has been taken by
\* one of them while the other one waits
C23_Witness ==
    /\ calls[1].pc = "done"
    /\ calls[1].step = 2
    /\ calls[2].pc = "awaiting"
    /\ calls[2].step = 2
    /\ calls[1].tool = calls[2].tool
    /\ Len(requestLog) = 5
    /\ requestLog[2] = calls[2].sent[1]
    /\ requestLog[5] = calls[2].sent[2]

\* the descriptor's own annotations supply the hint named key
suppliesHint(D, key) == D.annotations # None /\ key \in DOMAIN D.annotations[1]

\* C24 as stated: for a descriptor that passes both gates, readOnlyHint is
\* (descriptor.accessTier = read-only) and destructiveHint is false unless
\* the descriptor's own annotations override it.
C24_Original ==
    gateRet = Some(TRUE) =>
        LET D == gateArg[1]
            a == registered[D.name].annotations
        IN  /\ a.readOnlyHint = (D.accessTier = "read-only")
            /\ suppliesHint(D, "destructiveHint") \/ a.destructiveHint = FALSE

\* C24: for a descriptor that passes both gates, each of the two hints is
\* the one the descriptor's own annotations supply, if they supply it;
\* otherwise readOnlyHint is (descriptor.accessTier = read-only), whatever
\* tier is configured, and destructiveHint is false.
C24_Annotations ==
    gateRet = Some(TRUE) =>
        LET D == gateArg[1]
            a == registered[D.name].annotations
        IN  /\ a.readOnlyHint = IF suppliesHint(D, "readOnlyHint")
                                THEN D.annotations[1].readOnlyHint
                                ELSE D.accessTier = "read-only"
            /\ a.destructiveHint = IF suppliesHint(D, "destructiveHint")
                                   THEN D.annotations[1].destructiveHint
                                   ELSE FALSE

\* under the full tier a read-only descriptor without annotations has been
\* registered with readOnlyHint true, next to a tool whose destructiveHint
\* its descriptor has set
C24_Witness ==
    /\ gateRet = Some(TRUE)
    /\ config.accessTier = "full"
    /\ gateArg[1].accessTier = "read-only"
    /\ gateArg[1].annotations = None
    /\ registered[gateArg[1].name].annotations
          = [readOnlyHint |-> TRUE, destructiveHint |-> FALSE]
    /\ \E n \in DOMAIN registered : registered[n].annotations.destructiveHint

\* the last descriptor fails the tier gate, the category gate
failsTier(D) == config.accessTier = "read-only" /\ D.accessTier = "full"
failsCategory(D) ==
    /\ config.categories # None
    /\ \A i \in 1..Len(config.categories[1]) : config.categories[1][i] # D.category

\* C25: when either gate fails, registerTool returns false and the server's
\* tools are what they were before the call. The tier gate comes first: a
\* descriptor that fails the tier gate, failing the category gate or not, is
\* turned away in the tier branch (its one debug line is the tier line) and
\* the category branch is not entered.
C25_GateFrame ==
    /\ [](gateArg # None =>
            LET D == gateArg[1]
            IN  /\ (failsTier(D) \/ failsCategory(D)) => gateRet = Some(FALSE)
                /\ failsTier(D) =>
                      gateLog = <<"Skipping tool \"" \o D.name
                          \o "\" (requires full access, running in read-only mode)">>
                /\ (~failsTier(D) /\ failsCategory(D)) =>
                      gateLog = <<"Skipping tool \"" \o D.name \o "\" (category \""
                          \o D.category \o "\" not in allowed categories)">>)
    /\ [][gateRet' = Some(FALSE) => registered' = registered]_vars

\* a descriptor failing both gates has been turned away from a server that
\* holds a tool
C25_Witness ==
    /\ gateArg # None
    /\ failsTier(gateArg[1])
    /\ failsCategory(gateArg[1])
    /\ gateRet = Some(FALSE)
    /\ Len(gateLog) = 1
    /\ DOMAIN registered # {}
    /\ gateArg[1].name \notin DOMAIN registered

\* C26: global_set_protection uses the duration argument only when enabled
\* is false: a body posted to dns_config for enabled = true carries no
\* protection_disabled_duration field, whatever duration was supplied.
C26_DurationOnlyWhenDisabled ==
    \A c \in DOMAIN calls :
        (/\ calls[c].tool = "global_set_protection"
         /\ calls[c].args.enabled = "true") =>
            \A i \in 1..Len(calls[c].sent) :
                ~includes(calls[c].sent[i].body[1], "protection_disabled_duration")

\* an update call whose delete request threw
deleteFailed(c) ==
    /\ calls[c].tool \in UpdateTools
    /\ calls[c].pc = "done"
    /\ calls[c].returned = 0

\* C27: in rewrites_update and dhcp_update_static_lease the add request is
\* issued only after the delete request has succeeded. A call has sent its
\* add request only if its delete returned; a call whose delete failed has
\* sent the delete request alone and ends with an error-flagged result; and
\* the step in which the delete fails, like every later one, is not one in
\* which this call changes the appliance.
C27_AddAfterDelete ==
    /\ [](\A c \in DOMAIN calls :
            /\ (calls[c].tool \in UpdateTools /\ calls[c].step = 2) =>
                  /\ calls[c].returned >= 1
                  /\ calls[c].sent[1].url
                        = client.baseUrl \o "/"
                            \o toolCalls(calls[c].tool, calls[c].args)[1].path
                  /\ calls[c].sent[2].url
                        = client.baseUrl \o "/"
                            \o toolCalls(calls[c].tool, calls[c].args)[2].path
            /\ deleteFailed(c) =>
                  /\ calls[c].step = 1
                  /\ Len(calls[c].sent) = 1
                  /\ calls[c].result.isError)
    /\ [][\A c \in DOMAIN calls :
            (calls[c].pc = "awaiting" /\ deleteFailed(c)') =>
                /\ remote' = remote
                /\ requestLog' = requestLog]_vars

\* the delete of a lease update has failed: the lease is still there, next
\* to a rewrite update that went through
C27_Witness ==
    \E c, d \in DOMAIN calls :
        /\ deleteFailed(c)
        /\ calls[c].tool = "dhcp_update_static_lease"
        /\ OriginalLease \in remote.leases
        /\ calls[d].tool = "rewrites_update"
        /\ calls[d].pc = "done"
        /\ calls[d].returned = 2

\* the five paths that read-only tools post to, by tool
ReadOnlyPosts ==
    [dns_test_upstream |-> "test_upstream_dns",
     dhcp_find_active |-> "dhcp/find_active_dhcp",
     clients_search |-> "clients/search",
     global_check_version |-> "version.json",
     tls_validate |-> "tls/validate"]

\* C28: under the read-only tier the registered tools issue GET requests
\* only, except for POST requests to five paths, each sent by its tool:
\* test_upstream_dns, dhcp/find_active_dhcp, clients/search, version.json
\* and tls/validate. No other POST is sent, whatever calls are made.
C28_ReadOnlyRequests ==
    config.accessTier = "read-only" =>
        /\ \A i \in 1..Len(requestLog) :
              \/ requestLog[i].method = "GET"
              \/ /\ requestLog[i].method = "POST"
                 /\ \E t \in DOMAIN ReadOnlyPosts :
                       requestLog[i].url = client.baseUrl \o "/" \o ReadOnlyPosts[t]
        /\ \A c \in DOMAIN calls : \A j \in 1..Len(calls[c].sent) :
              calls[c].sent[j].method = "POST" =>
                 /\ calls[c].tool \in DOMAIN ReadOnlyPosts
                 /\ calls[c].sent[j].url
                       = client.baseUrl \o "/" \o ReadOnlyPosts[calls[c].tool]

\* global_check_version has posted to version.json and then sent its GET
C28_Witness ==
    /\ config.accessTier = "read-only"
    /\ \E c \in DOMAIN calls :
          /\ calls[c].tool = "global_check_version"
          /\ Len(calls[c].sent) = 2
          /\ calls[c].sent[1].method = "POST"
          /\ calls[c].sent[1].url = "http://adguard.local/control/version.json"
          /\ calls[c].sent[2].method = "GET"
          /\ calls[c].sent[2].url = "http://adguard.local/control/status"

\* ADGUARD_CATEGORIES has a value made of commas and blanks only
onlySeparators(raw) ==
    /\ raw # None
    /\ raw[1] # ""
    /\ \A i \in 1..Len(raw[1]) : SubSeq(raw[1], i, i) \in {",", " "}

\* C29: loadConfig yields categories = null only when ADGUARD_CATEGORIES is
\* unset or the empty string. A non-empty value without a non-empty entry
\* after splitting on commas and trimming yields an empty allowlist, and
\* registerAllTools then registers no tool.
C29_EmptyAllowlist ==
    (loaded # None /\ ~loaded[1].threw) =>
        /\ config.categories = None
              <=> env.ADGUARD_CATEGORIES \in {None, Some("")}
        /\ onlySeparators(env.ADGUARD_CATEGORIES) =>
              /\ config.categories = Some(<<>>)
              /\ gateLog # <<>> => registered = <<>>

\* "," and " " have been loaded as an empty allowlist and registerAllTools
\* has run
C29_Witness ==
    /\ loaded # None
    /\ ~loaded[1].threw
    /\ env.ADGUARD_CATEGORIES \in {Some(","), Some(" ")}
    /\ config.categories = Some(<<>>)
    /\ gateLog # <<>>
    /\ registered = <<>>

\* C30: no descriptor of the catalog supplies annotations of its own, so
\* under every configuration every registered tool is advertised with
\* destructiveHint = false, the destructive tools stats_reset,
\* querylog_clear, dhcp_reset and dhcp_reset_leases among them, and with
\* readOnlyHint = true exactly when its descriptor's tier is read-only.
C30_CatalogHints ==
    /\ \A i \in 1..Len(Catalog) : Catalog[i].annotations = None
    /\ \A n \in DOMAIN registered :
          /\ registered[n].annotations.destructiveHint = FALSE
          /\ \E i \in 1..Len(Catalog) :
                /\ Catalog[i].name = n
                /\ registered[n].annotations.readOnlyHint
                      = (Catalog[i].accessTier = "read-only")

\* the whole catalog is registered: the four reset and clear tools with
\* destructiveHint false and readOnlyHint false, next to a read-only tool
C30_Witness ==
    /\ proc.pc = "serving"
    /\ \A n \in {"stats_reset", "querylog_clear", "dhcp_reset", "dhcp_reset_leases"} :
          /\ n \in DOMAIN registered
          /\ registered[n].annotations
                = [readOnlyHint |-> FALSE, destructiveHint |-> FALSE]
    /\ "stats_get" \in DOMAIN registered
    /\ registered["stats_get"].annotations
          = [readOnlyHint |-> TRUE, destructiveHint |-> FALSE]

\* base64 sanity: the encoder agrees with known encodings
Base64Known ==
    /\ toBase64("admin:s3cret") = "YWRtaW46czNjcmV0"
    /\ toBase64("E:dm") = "RTpkbQ=="
    /\ toBase64("a:b") = "YTpi"
    /\ toBase64(":") = "Og=="

====
